---- MODULE Spec2Model ----
(***************************************************************************)
(* CLI subprocess bridge of ccode-m: the stdout line buffer and parser     *)
(* (cli-parser), and the subprocess lifecycle manager (cli-process).       *)
(*                                                                         *)
(* Text is modelled as a sequence of one-character strings, stdout chunks  *)
(* as sequences of bytes.  The wire format is abbreviated: a line          *)
(*   {a<text>}  stands for {"type":"assistant","message":{"role":          *)
(*              "assistant","content":[{"type":"text","text":"<text>"}]}}  *)
(*   {r}        stands for {"type":"result","usage":{"input_tokens":5,     *)
(*              "output_tokens":3}}                                        *)
(*   {s}        stands for {"type":"system"}                               *)
(* and every other line is not valid JSON.  The two bytes C3 A9 are the    *)
(* UTF-8 encoding of the one character U+00E9.                             *)
(***************************************************************************)
EXTENDS Integers, Sequences, FiniteSets, TLC

\* ---------------------------------------------------------------- bounds
MaxLines  == 2      \* stdout lines written by the subprocesses (SpecParser)
MaxProcs  == 2      \* subprocesses spawned (Spec)
MaxCalls  == 2      \* terminateSession invocations (Spec, SpecTerm)
MaxWrites == 1      \* stdout lines written by the subprocess (SpecTerm)
MaxBlocks == 3      \* blocks in the content array of a message line (SpecMapper)
MaxSpawnCalls == 3  \* spawnCLISession invocations, failed ones included (SpecRestart)
MaxRestarts == 1    \* POST /api/chat/restart requests (SpecRestart)
MaxTools  == 2      \* entries of a request's allowedTools array (SpecRestart)
MaxSends  == 2      \* sendMessage invocations (SpecSend)
MaxStreams == 2     \* stream requests (SpecSSE)
MaxBeats  == 1      \* heartbeat lines written to one stream (SpecSSE)
MaxStreamCalls == 1 \* terminateSession invocations (SpecSSE, SpecProc)
MaxAllCalls == 1    \* terminateAllSessions invocations (SpecAll)
MaxErrors == 1      \* 'error' events of one subprocess (SpecProc)
MaxStderr == 1      \* stderr error events on one session channel (SpecProc)
MaxChats == 1       \* POST /api/chat requests (SpecChat)
MaxChatStreams == 1 \* stream requests beside the other requests (SpecChat, SpecShutdown)
MaxWaitPolls == 3   \* sleeps of 100 ms until maxWaitMs has elapsed (SpecShutdown)

SessionIds == {"A", "B"}
\* Identifiers crypto.randomUUID() returns; never equal to a caller's id.
UUIDs == {"U1", "U2", "U3"}
AllIds == SessionIds \cup UUIDs

\* ---------------------------------------------------------------- bytes and characters
LF     == "\n"
SP     == " "
LEAD   == "C3"          \* first byte of the 2-byte UTF-8 sequence of U+00E9
CONT   == "A9"          \* its continuation byte
EACUTE == "U+00E9"
REPL   == "U+FFFD"      \* replacement character produced for undecodable bytes

\* Lines (without the terminating newline) the subprocess may write.
MsgLine   == <<"{", "a", LEAD, CONT, "}">>
ResLine   == <<"{", "r", "}">>
BadLine   == <<"{", "a">>
BlankLine == <<SP>>
StdoutLines == {MsgLine, ResLine, BadLine, BlankLine}
\* Lines whose content array holds two tool_use blocks: an assistant line
\* (text, Bash, Edit) and a tool_use line (Edit, Bash).
ToolLine == <<"{", "t", "}">>
UseLine  == <<"{", "u", "}">>
ToolUseLines == {ToolLine, UseLine, MsgLine, BlankLine}
\* Lines the subprocess writes while it is being terminated (SpecTerm).
LifeLines == {ResLine}

\* ---------------------------------------------------------------- Map<string, T>
EmptyMap == <<>>
MapGet(m, k, d) == IF k \in DOMAIN m THEN m[k] ELSE d
MapSet(m, k, v) == [x \in (DOMAIN m) \cup {k} |-> IF x = k THEN v ELSE m[x]]
MapDelete(m, k) == [x \in (DOMAIN m) \ {k} |-> m[x]]

\* ---------------------------------------------------------------- Buffer.toString('utf8')
RECURSIVE Utf8Decode(_)
Utf8Decode(bytes) ==
  IF bytes = <<>> THEN <<>>
  ELSE IF Head(bytes) = LEAD
       THEN IF Len(bytes) >= 2 /\ bytes[2] = CONT
            THEN <<EACUTE>> \o Utf8Decode(SubSeq(bytes, 3, Len(bytes)))
            ELSE <<REPL>> \o Utf8Decode(Tail(bytes))
       ELSE IF Head(bytes) = CONT
            THEN <<REPL>> \o Utf8Decode(Tail(bytes))
            ELSE <<Head(bytes)>> \o Utf8Decode(Tail(bytes))

\* ---------------------------------------------------------------- String.prototype.split('\n'), trim()
RECURSIVE Split(_)
Split(text) ==
  IF \E i \in 1..Len(text) : text[i] = LF
  THEN LET i == CHOOSE j \in 1..Len(text) :
                  text[j] = LF /\ \A k \in 1..(j - 1) : text[k] # LF
       IN  <<SubSeq(text, 1, i - 1)>> \o Split(SubSeq(text, i + 1, Len(text)))
  ELSE <<text>>

RECURSIVE Trim(_)
Trim(s) ==
  IF s = <<>> THEN s
  ELSE IF Head(s) \in {SP, LF} THEN Trim(Tail(s))
  ELSE IF s[Len(s)] \in {SP, LF} THEN Trim(SubSeq(s, 1, Len(s) - 1))
  ELSE s

\* ---------------------------------------------------------------- JSON values
\* Objects are records; strings, numbers, booleans and arrays are tagged so
\* that typeof and Array.isArray can be decided.  The discriminator field
\* "type" of an object is kept as a plain string.
JStr(s)  == [str |-> s]
JNum(n)  == [num |-> n]
JBool(b) == [bool |-> b]
JArr(a)  == [arr |-> a]
Null      == [type |-> "null"]
Undefined == [type |-> "undefined"]
IsString(v)  == "str" \in DOMAIN v
IsNumber(v)  == "num" \in DOMAIN v
IsBoolean(v) == "bool" \in DOMAIN v
IsArray(v)   == "arr" \in DOMAIN v
\* typeof v === 'object' (true of null and of arrays)
IsObject(v)  == ~IsString(v) /\ ~IsNumber(v) /\ ~IsBoolean(v) /\ v # Undefined
\* v is neither null nor undefined (the negation of what ?? and ?. test)
Nullish(v) == v = Null \/ v = Undefined
\* ToBoolean(v), as tested by !v and ||
Truthy(v) ==
  /\ ~Nullish(v)
  /\ (IsString(v) => v.str # <<>>)
  /\ (IsNumber(v) => v.num # 0)
  /\ (IsBoolean(v) => v.bool)
\* the discriminator o.type of an object ("undefined" when it has none)
TypeOf(o) == IF "type" \in DOMAIN o THEN o.type ELSE "undefined"
\* property read o.k (o?.k when o may be nullish)
Get(o, k) == IF ~IsArray(o) /\ k \in DOMAIN o /\ ~Nullish(o) THEN o[k] ELSE Undefined

\* JSON.parse on the abbreviated wire format: ok = FALSE is a SyntaxError.
JSONParse(line) ==
  LET t == Trim(line)
      n == Len(t)
      wellFormed ==
        /\ n >= 3
        /\ t[1] = "{"
        /\ t[n] = "}"
        /\ t[2] \in {"a", "r", "s", "t", "u"}
        /\ \A i \in 2..(n - 1) : t[i] \notin {"{", "}"}
        /\ (t[2] # "a" => n = 3)
  IN  IF ~wellFormed THEN [ok |-> FALSE, value |-> [type |-> "SyntaxError"]]
      ELSE IF t[2] = "a"
      THEN [ok |-> TRUE,
            value |-> [type |-> "assistant",
                       message |-> [role |-> JStr(<<"assistant">>),
                                    content |-> JArr(<<[type |-> "text",
                                                         text |-> JStr(SubSeq(t, 3, n - 1))]>>)]]]
      ELSE IF t[2] = "r"
      THEN [ok |-> TRUE,
            value |-> [type |-> "result",
                       usage |-> [input_tokens |-> JNum(5), output_tokens |-> JNum(3)]]]
      ELSE IF t[2] = "t"
      THEN [ok |-> TRUE,
            value |-> [type |-> "assistant",
                       message |-> [role |-> JStr(<<"assistant">>),
                                    content |-> JArr(<<[type |-> "text", text |-> JStr(<<"h", "i">>)],
                                                       [type |-> "tool_use", name |-> JStr(<<"Bash">>),
                                                        input |-> [command |-> JStr(<<"l", "s">>)]],
                                                       [type |-> "tool_use", tool |-> JStr(<<"Edit">>)]>>)]]]
      ELSE IF t[2] = "u"
      THEN [ok |-> TRUE,
            value |-> [type |-> "tool_use",
                       message |-> [content |-> JArr(<<[type |-> "tool_use", tool |-> JStr(<<"Edit">>)],
                                                       [type |-> "tool_use", name |-> JStr(<<"Bash">>),
                                                        input |-> [command |-> JStr(<<"l", "s">>)]]>>)]]]
      ELSE [ok |-> TRUE, value |-> [type |-> "system"]]

\* ---------------------------------------------------------------- event mappers
RECURSIVE Join(_)
Join(parts) ==
  IF parts = <<>> THEN <<>>
  ELSE IF Len(parts) = 1 THEN parts[1]
  ELSE parts[1] \o <<LF>> \o Join(Tail(parts))

IsToolUseBlock(b) == Truthy(b) /\ IsObject(b) /\ TypeOf(b) = "tool_use"

\* (b.name as string) || (b.tool as string) || 'unknown'
toolName(b) ==
  IF Truthy(Get(b, "name")) THEN Get(b, "name")
  ELSE IF Truthy(Get(b, "tool")) THEN Get(b, "tool")
  ELSE JStr(<<"u", "n", "k", "n", "o", "w", "n">>)

toolUseEvent(b) ==
  [type |-> "tool_use", tool_name |-> toolName(b), tool_input |-> Get(b, "input")]

\* Variant: the loop keeps the last tool_use block.
firstToolUse_Last(content) ==
  LET i == CHOOSE j \in 1..Len(content) :
             /\ IsToolUseBlock(content[j])
             /\ \A k \in (j + 1)..Len(content) : ~IsToolUseBlock(content[k])
  IN  content[i]

\* The first tool_use block of a content array, as the for-loop finds it.
firstToolUse(content) ==
  LET i == CHOOSE j \in 1..Len(content) :
             /\ IsToolUseBlock(content[j])
             /\ \A k \in 1..(j - 1) : ~IsToolUseBlock(content[k])
  IN  content[i]

RECURSIVE textParts(_)
textParts(content) ==
  IF content = <<>> THEN <<>>
  ELSE LET b == Head(content) IN
       IF Truthy(b) /\ IsObject(b) /\ TypeOf(b) = "text" /\ IsString(Get(b, "text"))
       THEN <<Get(b, "text").str>> \o textParts(Tail(content))
       ELSE IF Truthy(b) /\ IsObject(b) /\ TypeOf(b) = "thinking"
               /\ IsString(Get(b, "thinking"))
       THEN <<(<<"[thinking]", LF>> \o Get(b, "thinking").str)>> \o textParts(Tail(content))
       ELSE textParts(Tail(content))

\* Variant: the text blocks are collected before tool_use blocks are looked for.
mapMessageEvent_TextFirst(event, sessionId) ==
  LET message == Get(event, "message") IN
  IF ~Truthy(message) THEN Null
  ELSE LET content == Get(message, "content") IN
       IF IsArray(content)
       THEN IF textParts(content.arr) # <<>>
            THEN [type |-> "message", content |-> JStr(Join(textParts(content.arr)))]
            ELSE IF \E i \in 1..Len(content.arr) : IsToolUseBlock(content.arr[i])
            THEN toolUseEvent(firstToolUse(content.arr))
            ELSE [type |-> "message", content |-> JStr(<<>>)]
       ELSE IF IsString(content)
       THEN [type |-> "message", content |-> content]
       ELSE Null

mapMessageEvent(event, sessionId) ==
  LET message == Get(event, "message") IN
  IF ~Truthy(message) THEN Null
  ELSE LET content == Get(message, "content") IN
       IF IsArray(content)
       THEN IF \E i \in 1..Len(content.arr) : IsToolUseBlock(content.arr[i])
            THEN toolUseEvent(firstToolUse(content.arr))
            ELSE [type |-> "message", content |-> JStr(Join(textParts(content.arr)))]
       ELSE IF IsString(content)
       THEN [type |-> "message", content |-> content]
       ELSE Null

\* usage?.input_tokens ?? event.input_tokens ?? 0
mapResultEvent(event) ==
  LET usage == Get(event, "usage")
      inputTokens ==
        IF ~Nullish(Get(usage, "input_tokens")) THEN Get(usage, "input_tokens")
        ELSE IF ~Nullish(Get(event, "input_tokens")) THEN Get(event, "input_tokens")
        ELSE JNum(0)
      outputTokens ==
        IF ~Nullish(Get(usage, "output_tokens")) THEN Get(usage, "output_tokens")
        ELSE IF ~Nullish(Get(event, "output_tokens")) THEN Get(event, "output_tokens")
        ELSE JNum(0)
  IN  [type |-> "complete", input_tokens |-> inputTokens, output_tokens |-> outputTokens]

mapToolUseEvent(event) ==
  LET message == Get(event, "message") IN
  IF ~Truthy(message) THEN Null
  ELSE LET content == Get(message, "content") IN
       IF ~IsArray(content) THEN Null
       ELSE IF \E i \in 1..Len(content.arr) : IsToolUseBlock(content.arr[i])
       THEN toolUseEvent(firstToolUse(content.arr))
       ELSE Null

mapToolResultEvent(event) ==
  [type |-> "tool_result",
   tool_output |-> IF Truthy(Get(event, "result")) THEN Get(event, "result") ELSE JStr(<<>>),
   is_cached |-> Get(event, "is_cached")]

PENDING     == JStr(<<"pending">>)
IN_PROGRESS == JStr(<<"in_progress">>)
COMPLETED   == JStr(<<"completed">>)

mapTodo(t) ==
  [content |-> IF Truthy(Get(t, "content")) THEN Get(t, "content") ELSE JStr(<<>>),
   status |-> IF Get(t, "status") \in {PENDING, IN_PROGRESS, COMPLETED}
              THEN Get(t, "status") ELSE PENDING,
   active_form |-> IF Truthy(Get(t, "active_form")) THEN Get(t, "active_form")
                   ELSE IF Truthy(Get(t, "activeForm")) THEN Get(t, "activeForm")
                   ELSE JStr(<<>>)]

RECURSIVE mappedTodos(_)
mappedTodos(todos) ==
  IF todos = <<>> THEN <<>>
  ELSE IF Head(todos) # Null /\ IsObject(Head(todos))
       THEN <<mapTodo(Head(todos))>> \o mappedTodos(Tail(todos))
       ELSE mappedTodos(Tail(todos))

mapProgressEvent(event) ==
  LET todos == Get(event, "todos") IN
  IF ~IsArray(todos) THEN Null
  ELSE [type |-> "progress", todos |-> JArr(mappedTodos(todos.arr))]

CREATE == JStr(<<"create">>)
UPDATE == JStr(<<"update">>)

\* Variant: an absent action defaults to 'create'.
mapArtifactEvent_DefaultCreate(event) ==
  LET filePath == IF ~Nullish(Get(event, "file_path")) THEN Get(event, "file_path")
                  ELSE Get(event, "path")
      fileContent == IF ~Nullish(Get(event, "file_content")) THEN Get(event, "file_content")
                     ELSE IF ~Nullish(Get(event, "content")) THEN Get(event, "content")
                     ELSE JStr(<<>>)
      actionType == IF ~Nullish(Get(event, "action_type")) THEN Get(event, "action_type")
                    ELSE IF ~Nullish(Get(event, "action")) THEN Get(event, "action")
                    ELSE CREATE
  IN  IF ~Truthy(filePath) THEN Null
      ELSE [type |-> "artifact", file_path |-> filePath, file_content |-> fileContent,
            action_type |-> actionType]

mapArtifactEvent(event) ==
  LET filePath == IF ~Nullish(Get(event, "file_path")) THEN Get(event, "file_path")
                  ELSE Get(event, "path")
      fileContent == IF ~Nullish(Get(event, "file_content")) THEN Get(event, "file_content")
                     ELSE IF ~Nullish(Get(event, "content")) THEN Get(event, "content")
                     ELSE JStr(<<>>)
      actionType == IF ~Nullish(Get(event, "action_type")) THEN Get(event, "action_type")
                    ELSE IF ~Nullish(Get(event, "action")) THEN Get(event, "action")
                    ELSE UPDATE
  IN  IF ~Truthy(filePath) THEN Null
      ELSE [type |-> "artifact", file_path |-> filePath, file_content |-> fileContent,
            action_type |-> actionType]

\* SSEEventSchema.safeParse(e).success: the discriminated union of seven shapes.
SSEEventSchemaOk(e) ==
  \/ e.type = "message" /\ IsString(Get(e, "content"))
  \/ e.type = "tool_use" /\ IsString(Get(e, "tool_name"))
  \/ /\ e.type = "tool_result"
     /\ IsString(Get(e, "tool_output"))
     /\ (Get(e, "is_cached") = Undefined \/ IsBoolean(Get(e, "is_cached")))
  \/ /\ e.type = "progress"
     /\ IsArray(Get(e, "todos"))
     /\ \A i \in 1..Len(e.todos.arr) :
          /\ IsString(Get(e.todos.arr[i], "content"))
          /\ Get(e.todos.arr[i], "status") \in {PENDING, IN_PROGRESS, COMPLETED}
          /\ IsString(Get(e.todos.arr[i], "active_form"))
  \/ /\ e.type = "artifact"
     /\ IsString(Get(e, "file_path"))
     /\ IsString(Get(e, "file_content"))
     /\ Get(e, "action_type") \in {CREATE, UPDATE}
  \/ /\ e.type = "complete"
     /\ IsNumber(Get(e, "input_tokens"))
     /\ IsNumber(Get(e, "output_tokens"))
  \/ /\ e.type = "error"
     /\ IsString(Get(e, "error_message"))
     /\ IsString(Get(e, "error_code"))

\* The mapper chosen by the type discriminator; Null where the code returns null.
mapByType(cliEvent, sessionId) ==
  LET eventType == TypeOf(cliEvent) IN
  IF eventType \in {"assistant", "message"} THEN mapMessageEvent(cliEvent, sessionId)
  ELSE IF eventType \in {"result", "complete"} THEN mapResultEvent(cliEvent)
  ELSE IF eventType \in {"tool_use", "tool_use_calls"} THEN mapToolUseEvent(cliEvent)
  ELSE IF eventType \in {"tool_result", "tool_results"} THEN mapToolResultEvent(cliEvent)
  ELSE IF eventType \in {"progress", "todo"} THEN mapProgressEvent(cliEvent)
  ELSE IF eventType \in {"artifact", "file"} THEN mapArtifactEvent(cliEvent)
  ELSE Null       \* system/init are skipped, unknown types are logged and dropped

\* Variant: the mapped candidate is returned without structural validation.
mapCLIEventToSSE_NoValidation(cliEvent, sessionId) ==
  IF ~Truthy(cliEvent) \/ ~IsObject(cliEvent) THEN Null
  ELSE mapByType(cliEvent, sessionId)

mapCLIEventToSSE(cliEvent, sessionId) ==
  IF ~Truthy(cliEvent) \/ ~IsObject(cliEvent) THEN Null
  ELSE LET mappedEvent == mapByType(cliEvent, sessionId)
       IN  IF mappedEvent # Null /\ SSEEventSchemaOk(mappedEvent) THEN mappedEvent ELSE Null

\* ---------------------------------------------------------------- parseCLIOutput
\* Variant: one try/catch around the whole loop, so the first invalid line ends it.
RECURSIVE ParseLines_StopAtError(_, _, _)
ParseLines_StopAtError(lines, sessionId, events) ==
  IF lines = <<>> THEN [events |-> events, threw |-> FALSE]
  ELSE LET line == Head(lines) IN
       IF Trim(line) = <<>> THEN ParseLines_StopAtError(Tail(lines), sessionId, events)
       ELSE LET parsed == JSONParse(line) IN
            IF ~parsed.ok THEN [events |-> events, threw |-> FALSE]
            ELSE LET event == mapCLIEventToSSE(parsed.value, sessionId) IN
                 IF event # Null
                 THEN ParseLines_StopAtError(Tail(lines), sessionId, Append(events, event))
                 ELSE ParseLines_StopAtError(Tail(lines), sessionId, events)

\* The for-loop over the complete lines.  A JSON.parse failure is caught
\* inside the loop body and the loop goes on with the next line.
RECURSIVE ParseLines(_, _, _)
ParseLines(lines, sessionId, events) ==
  IF lines = <<>> THEN [events |-> events, threw |-> FALSE]
  ELSE LET line == Head(lines) IN
       IF Trim(line) = <<>> THEN ParseLines(Tail(lines), sessionId, events)
       ELSE LET parsed == JSONParse(line) IN
            IF ~parsed.ok THEN ParseLines(Tail(lines), sessionId, events)
            ELSE LET event == mapCLIEventToSSE(parsed.value, sessionId) IN
                 IF event # Null
                 THEN ParseLines(Tail(lines), sessionId, Append(events, event))
                 ELSE ParseLines(Tail(lines), sessionId, events)

\* Variant: the text of the chunk is split without the buffered partial line.
parseCLIOutput_NoBuffer(buffers, sessionId, data) ==
  LET text  == Utf8Decode(data)
      lines == Split(text)
      last  == lines[Len(lines)]
      loop  == ParseLines(SubSeq(lines, 1, Len(lines) - 1), sessionId, <<>>)
  IN  [buffers |-> MapSet(buffers, sessionId, last),
       events  |-> IF loop.threw THEN <<>> ELSE loop.events,
       threw   |-> loop.threw]

\* Variant: one module-level buffer instead of one per session id.
parseCLIOutput_SharedBuffer(buffers, sessionId, data) ==
  LET existing == MapGet(buffers, "shared", <<>>)
      text     == existing \o Utf8Decode(data)
      lines    == Split(text)
      last     == lines[Len(lines)]
      loop     == ParseLines(SubSeq(lines, 1, Len(lines) - 1), sessionId, <<>>)
  IN  [buffers |-> MapSet(buffers, "shared", last),
       events  |-> IF loop.threw THEN <<>> ELSE loop.events,
       threw   |-> loop.threw]

\* Variant: the trailing segment is parsed with the complete lines.
parseCLIOutput_ParseTrailing(buffers, sessionId, data) ==
  LET existing == MapGet(buffers, sessionId, <<>>)
      text     == existing \o Utf8Decode(data)
      lines    == Split(text)
      last     == lines[Len(lines)]
      loop     == ParseLines(lines, sessionId, <<>>)
  IN  [buffers |-> MapSet(buffers, sessionId, last),
       events  |-> IF loop.threw THEN <<>> ELSE loop.events,
       threw   |-> loop.threw]

\* Result: the new buffer map, the returned events, and whether the call raised.
parseCLIOutput(buffers, sessionId, data) ==
  LET existing == MapGet(buffers, sessionId, <<>>)
      text     == existing \o Utf8Decode(data)
      lines    == Split(text)
      last     == lines[Len(lines)]
      loop     == ParseLines(SubSeq(lines, 1, Len(lines) - 1), sessionId, <<>>)
  IN  [buffers |-> MapSet(buffers, sessionId, last),
       events  |-> IF loop.threw THEN <<>> ELSE loop.events,
       threw   |-> loop.threw]

clearSessionBuffer(buffers, sessionId) == MapDelete(buffers, sessionId)

getSessionBuffer(buffers, sessionId) == MapGet(buffers, sessionId, <<>>)

\* ---------------------------------------------------------------- createErrorEvent
createErrorEvent(errorMessage, errorCode) ==
  [type |-> "error", error_message |-> errorMessage, error_code |-> errorCode]

\* ---------------------------------------------------------------- state
VARIABLES
  procs,            \* spawned subprocesses: [sid, alive, killed, sigs]
  sessions,         \* cli-process registry: session id -> index into procs
  sessionBuffers,   \* cli-parser line buffers: session id -> text
  calls,            \* terminateSession invocations: [sid, proc, pc, ret, batch, ...]
  pipe,             \* per subprocess: stdout bytes written and not yet delivered
  channel,          \* per subprocess: events emitted as 'cli-event' on its session
                    \* emitter since the line buffer of its session id was last cleared
  written,          \* number of stdout lines written so far
  hist,             \* per session id: record of what was fed to and returned by the parser
  mapper,           \* the parser loop body on one parsed line: [phase, in, out]
  cliAvailable,     \* what checkCliAvailable() returns
  lastSpawn,        \* the latest spawnCLISession call: [n, sid, threw, proc]
  restarts,         \* POST /api/chat/restart requests: [sid, tools, pc, status, call, proc]
  globalSession,    \* index.ts globalSession: index into procs, 0 for null
  stdin,            \* subprocess index -> state of its stdin stream
  sends,            \* sendMessage invocations: [sid, text, ret, raised, outcome, chunk, proc, at]
  streams,          \* stream requests of the chat route, in order of arrival
  activeRequestCount, \* index.ts activeRequestCount
  signals,          \* what the 'error' and 'exit' handlers of the subprocesses emitted
                    \* on their session emitters, in order: [proc, name, arg]
  chats,            \* POST /api/chat requests of the chat route, in order of arrival
  shutdown          \* the run of index.ts shutdown(): [pc, polls, call, ...]

vars == <<procs, sessions, sessionBuffers, calls, pipe, channel, written, hist, mapper,
          cliAvailable, lastSpawn, restarts, globalSession, stdin, sends,
          streams, activeRequestCount, signals, chats, shutdown>>

sseVars == <<streams, activeRequestCount>>

\* State the stdout path and the timer and exit callbacks never touch.
routeVars == <<mapper, cliAvailable, lastSpawn, restarts, globalSession, stdin, sends>>
reqVars == <<chats, shutdown>>
otherVars == <<routeVars, sseVars, signals, reqVars>>

NoSpawn == [n |-> 0, sid |-> "", threw |-> "none", proc |-> 0]

MapperIdle == [phase |-> "idle", in |-> Null, out |-> <<>>]

\* shutdown() has not been called.
NoShutdown == [pc |-> "idle", polls |-> 0, call |-> 0, seen |-> 0, proc |-> 0]

\* What has been observed for one session id since its buffer was last cleared:
\*   fed    bytes passed to parseCLIOutput        seen   the text they were decoded to
\*   out    events parseCLIOutput returned        clean  no chunk boundary inside a character
\*   threw  a parseCLIOutput call raised           ncalls number of calls, counted up to 2
\*   alone  a private parser fed the same calls, with no other session present
HistInit ==
  [fed |-> <<>>, seen |-> <<>>, out |-> <<>>, clean |-> TRUE, threw |-> FALSE, ncalls |-> 0,
   alone |-> [buffers |-> EmptyMap, events |-> <<>>]]

\* The channel logs start again when the buffer of session id sid is cleared.
ChannelClear(sid) == [p \in DOMAIN channel |-> IF procs[p].sid = sid THEN <<>> ELSE channel[p]]

HistData(h, sid, chunk, r) ==
  LET a == parseCLIOutput(h.alone.buffers, sid, chunk) IN
  [fed   |-> h.fed \o chunk,
   seen  |-> h.seen \o Utf8Decode(chunk),
   out   |-> h.out \o r.events,
   clean |-> h.clean /\ \A i \in 1..Len(Utf8Decode(chunk)) : Utf8Decode(chunk)[i] # REPL,
   threw |-> h.threw \/ r.threw,
   ncalls |-> IF h.ncalls < 2 THEN h.ncalls + 1 ELSE h.ncalls,
   alone |-> [buffers |-> a.buffers, events |-> h.alone.events \o a.events]]

\* ---------------------------------------------------------------- ChildProcess.kill
\* Node sets .killed when the signal was delivered; a subprocess that has
\* exited has no handle, kill() returns false and changes nothing.
kill(ps, p, sig) ==
  IF ps[p].alive
  THEN [ps EXCEPT ![p].killed = TRUE, ![p].sigs = Append(@, sig)]
  ELSE ps

\* ---------------------------------------------------------------- SSE stream (chat.ts)
\* One record per GET /api/chat/stream/:sessionId request:
\*   sid         the :sessionId parameter      proc       the session object listened to
\*   status      HTTP status of the reply      out        chunks written to reply.raw
\*   streamEnded the handler's flag            heartbeat  the interval is set
\*   listening   eventHandler is registered    ends       calls of reply.raw.end()
\*   cleanups    runs of cleanup()             closeSeen  request 'close' was emitted
\*   fresh       nothing had been parsed for the session when the listener was added
NoStream(sid, status) ==
  [sid |-> sid, proc |-> 0, status |-> status, out |-> <<>>, streamEnded |-> FALSE,
   heartbeat |-> FALSE, listening |-> FALSE, ends |-> 0, cleanups |-> 0,
   closeSeen |-> FALSE, fresh |-> FALSE]

\* Chunks written to the response.  JSON.stringify escapes line feeds, so the
\* payload of a data chunk is one line; it is kept as the event it encodes.
Comment(text) == [line |-> "comment", text |-> text, json |-> Null]
DataLine(event) == [line |-> "data", text |-> "data: ", json |-> event]

TerminalTypes == {"complete", "error"}

\* On st = [streams, count, chats], count being activeRequestCount.
cleanup(st, i) ==
  [st EXCEPT !.streams = [@ EXCEPT ![i] = [@ EXCEPT !.heartbeat = FALSE, !.listening = FALSE,
                                                    !.cleanups = @ + 1]],
             !.count   = @ - 1]

\* Variant: the streamEnded flag is never set.
endStream_NoFlag(st, i) ==
  LET s1 == cleanup(st, i) IN
  [s1 EXCEPT !.streams = [@ EXCEPT ![i] = [@ EXCEPT !.ends = @ + 1]]]

endStream(st, i) ==
  IF st.streams[i].streamEnded THEN st
  ELSE LET s0 == [st EXCEPT !.streams = [@ EXCEPT ![i] = [@ EXCEPT !.streamEnded = TRUE]]]
           s1 == cleanup(s0, i)
       IN  [s1 EXCEPT !.streams = [@ EXCEPT ![i] = [@ EXCEPT !.ends = @ + 1]]]

\* Variant: a terminal event ends the stream without being written.
eventHandler_EndUnwritten(st, i, event) ==
  IF st.streams[i].streamEnded THEN st
  ELSE IF event.type \in TerminalTypes THEN endStream(st, i)
  ELSE [st EXCEPT !.streams = [@ EXCEPT ![i] = [@ EXCEPT !.out = Append(@, DataLine(event))]]]

eventHandler(st, i, event) ==
  IF st.streams[i].streamEnded THEN st
  ELSE LET s1 == [st EXCEPT !.streams =
                     [@ EXCEPT ![i] = [@ EXCEPT !.out = Append(@, DataLine(event))]]]
       IN  IF event.type \in TerminalTypes THEN endStream(s1, i) ELSE s1

\* ---------------------------------------------------------------- POST /api/chat (promise callbacks)
\* One record per POST /api/chat request:
\*   sid, proc       the sessionId of the body, the session object listened to
\*   pc              "waiting" for the promise, "settled", "done" (reply sent)
\*   status          HTTP status of the reply, 0 until it is sent
\*   responseEvents  the events collected by eventHandler
\*   how, reply      what settled the promise first, and its value or message
\*   onEvent, onError, onClose   the listener is attached
\*   timer           the 30 s timeout is pending
\*   incs, decs      calls of incrementActiveRequests / decrementActiveRequests
\*   since           events the session object had emitted when the message was sent
NoChat(sid, status, n) ==
  [sid |-> sid, proc |-> 0, pc |-> "done", status |-> status, responseEvents |-> <<>>,
   how |-> "none", reply |-> <<>>, onEvent |-> FALSE, onError |-> FALSE, onClose |-> FALSE,
   timer |-> FALSE, closeSeen |-> FALSE, incs |-> n, decs |-> n, since |-> 0]

\* Variant: the listener on the request's 'close' is left attached.
chatCleanup_KeepClose(ch) == [ch EXCEPT !.onEvent = FALSE, !.onError = FALSE]

chatCleanup(ch) == [ch EXCEPT !.onEvent = FALSE, !.onError = FALSE, !.onClose = FALSE]

\* resolve() or reject(): only the first call settles the promise.
settle(ch, how, reply) ==
  IF ch.how # "none" THEN ch
  ELSE [ch EXCEPT !.how = how, !.reply = reply, !.pc = "settled"]

\* responseEvents.filter(type === 'message').map(content).join('')
RECURSIVE replyText(_)
replyText(events) ==
  IF events = <<>> THEN <<>>
  ELSE (IF Head(events).type = "message" THEN Head(events).content.str ELSE <<>>)
         \o replyText(Tail(events))

chatEventHandler(ch, event) ==
  LET c1 == [ch EXCEPT !.responseEvents = Append(@, event)] IN
  IF event.type = "message" THEN c1
  ELSE IF event.type = "complete"
  THEN settle([chatCleanup(c1) EXCEPT !.timer = FALSE], "complete", replyText(c1.responseEvents))
  ELSE IF event.type = "error"
  THEN settle([chatCleanup(c1) EXCEPT !.timer = FALSE], "error", event.error_message)
  ELSE c1

chatErrorHandler(ch, err) ==
  settle([chatCleanup(ch) EXCEPT !.timer = FALSE], "cli-error", err.message)

\* emitter.emit('cli-error', err) on the session object p.
emitError(chs, p, err) ==
  [c \in DOMAIN chs |-> IF chs[c].proc = p /\ chs[c].onError
                        THEN chatErrorHandler(chs[c], err) ELSE chs[c]]

\* emitter.emit('cli-event', event) on the session object p: the listeners
\* registered when the call starts run in registration order.
RECURSIVE emitTo(_, _, _, _)
emitTo(st, listeners, event, i) ==
  IF i > Len(st.streams) THEN st
  ELSE IF i \in listeners THEN emitTo(eventHandler(st, i, event), listeners, event, i + 1)
  ELSE emitTo(st, listeners, event, i + 1)

emit(st, p, event) ==
  LET s1 == emitTo(st, {i \in DOMAIN st.streams :
                          st.streams[i].proc = p /\ st.streams[i].listening}, event, 1)
  IN  [s1 EXCEPT !.chats = [c \in DOMAIN @ |-> IF @[c].proc = p /\ @[c].onEvent
                                                THEN chatEventHandler(@[c], event) ELSE @[c]]]

\* for (const event of events) session.emitter.emit('cli-event', event)
RECURSIVE emitAll(_, _, _)
emitAll(st, p, events) ==
  IF events = <<>> THEN st
  ELSE emitAll(emit(st, p, Head(events)), p, Tail(events))

\* ---------------------------------------------------------------- spawnCLISession
\* SpawnOptions; resume = "" and allowedTools = <<>> stand for absent.
NoOptions == [continue |-> FALSE, resume |-> "", allowedTools |-> <<>>]

BaseArgs == <<"--print", "--output-format", "stream-json", "--verbose",
              "--input-format", "stream-json">>

SpawnArgs(options) ==
  BaseArgs \o (IF options.continue THEN <<"--continue">>
               ELSE IF options.resume # "" THEN <<"--resume", options.resume>>
               ELSE <<>>)

\* Variant: the subprocess is spawned without the availability check.
spawnCLISession_NoCheck(st, available, id, options) ==
  [procs    |-> Append(st.procs, [sid |-> id, alive |-> TRUE, killed |-> FALSE,
                                  sigs |-> <<>>, args |-> SpawnArgs(options),
                                       mode |-> "streaming"]),
   pipe     |-> Append(st.pipe, <<>>),
   channel  |-> Append(st.channel, <<>>),
   sessions |-> MapSet(st.sessions, id, Len(st.procs) + 1),
   result   |-> [threw |-> IF available THEN "none" ELSE "CLI_NOT_FOUND",
                 proc |-> Len(st.procs) + 1]]

\* On st = [procs, pipe, channel, sessions]; result.threw names the error thrown.
spawnCLISession(st, available, id, options) ==
  IF ~available
  THEN [procs |-> st.procs, pipe |-> st.pipe, channel |-> st.channel, sessions |-> st.sessions,
        result |-> [threw |-> "CLI_NOT_FOUND", proc |-> 0]]
  ELSE [procs    |-> Append(st.procs, [sid |-> id, alive |-> TRUE, killed |-> FALSE,
                                       sigs |-> <<>>, args |-> SpawnArgs(options),
                                       mode |-> "streaming"]),
        pipe     |-> Append(st.pipe, <<>>),
        channel  |-> Append(st.channel, <<>>),
        sessions |-> MapSet(st.sessions, id, Len(st.procs) + 1),
        result   |-> [threw |-> "none", proc |-> Len(st.procs) + 1]]

\* A call spawnCLISession(projectPath, sid, options) by any caller.
SpawnCLISession(sid, options) ==
  /\ Len(procs) < MaxProcs
  /\ lastSpawn.n < MaxSpawnCalls
  /\ LET st == spawnCLISession([procs |-> procs, pipe |-> pipe, channel |-> channel,
                                sessions |-> sessions], cliAvailable, sid, options)
     IN  /\ procs' = st.procs
         /\ pipe' = st.pipe
         /\ channel' = st.channel
         /\ sessions' = st.sessions
         /\ lastSpawn' = [n |-> lastSpawn.n + 1, sid |-> sid,
                          threw |-> st.result.threw, proc |-> st.result.proc]
  /\ UNCHANGED <<sessionBuffers, calls, written, hist>>
  /\ UNCHANGED <<mapper, cliAvailable, restarts, globalSession, stdin, sends>>
  /\ UNCHANGED <<sseVars, signals, reqVars>>

\* The executable appears in or disappears from PATH.
CliAvailability(b) ==
  /\ cliAvailable # b
  /\ cliAvailable' = b
  /\ UNCHANGED <<procs, sessions, sessionBuffers, calls, pipe, channel, written, hist>>
  /\ UNCHANGED <<mapper, lastSpawn, restarts, globalSession, stdin, sends>>
  /\ UNCHANGED <<sseVars, signals, reqVars>>

\* ---------------------------------------------------------------- subprocess stdout
ProcWrite(p, line) ==
  /\ procs[p].alive
  /\ pipe' = [pipe EXCEPT ![p] = @ \o line \o <<LF>>]
  /\ written' = written + 1
  /\ UNCHANGED <<procs, sessions, sessionBuffers, calls, channel, hist>>
  /\ UNCHANGED otherVars

\* Variant: the returned events are emitted last to first.
StdoutData_EmitReversed(p, n) ==
  /\ n \in 1..Len(pipe[p])
  /\ LET sid   == procs[p].sid
         chunk == SubSeq(pipe[p], 1, n)
         r     == parseCLIOutput(sessionBuffers, sid, chunk)
         rev   == [i \in 1..Len(r.events) |-> r.events[Len(r.events) + 1 - i]]
     IN  /\ sessionBuffers' = r.buffers
         /\ channel' = [channel EXCEPT ![p] = @ \o rev]
         /\ pipe' = [pipe EXCEPT ![p] = SubSeq(@, n + 1, Len(@))]
         /\ hist' = [hist EXCEPT ![sid] = HistData(@, sid, chunk, r)]
         /\ LET st == emitAll([streams |-> streams, count |-> activeRequestCount, chats |-> chats], p, rev)
            IN  streams' = st.streams /\ activeRequestCount' = st.count /\ chats' = st.chats
  /\ UNCHANGED <<procs, sessions, calls, written, signals>>
  /\ UNCHANGED <<routeVars, shutdown>>

\* cliProcess.stdout.on('data'): parse the chunk, emit every returned event.
StdoutData(p, n) ==
  /\ n \in 1..Len(pipe[p])
  /\ LET sid   == procs[p].sid
         chunk == SubSeq(pipe[p], 1, n)
         r     == parseCLIOutput(sessionBuffers, sid, chunk)
     IN  /\ sessionBuffers' = r.buffers
         /\ channel' = [channel EXCEPT ![p] = @ \o r.events]
         /\ pipe' = [pipe EXCEPT ![p] = SubSeq(@, n + 1, Len(@))]
         /\ hist' = [hist EXCEPT ![sid] = HistData(@, sid, chunk, r)]
         /\ LET st == emitAll([streams |-> streams, count |-> activeRequestCount, chats |-> chats], p, r.events)
            IN  streams' = st.streams /\ activeRequestCount' = st.count /\ chats' = st.chats
  /\ UNCHANGED <<procs, sessions, calls, written, signals>>
  /\ UNCHANGED <<routeVars, shutdown>>

\* A direct call of the exported clearSessionBuffer.
ClearSessionBufferCall(sid) ==
  /\ sessionBuffers' = clearSessionBuffer(sessionBuffers, sid)
  /\ hist' = [hist EXCEPT ![sid] = HistInit]
  /\ channel' = ChannelClear(sid)
  /\ UNCHANGED <<procs, sessions, calls, pipe, written>>
  /\ UNCHANGED otherVars

\* ---------------------------------------------------------------- terminateSession
\* Variant: the registry entry is not deleted.
terminateResume_NoDelete(st, c, how) ==
  LET call   == st.calls[c]
      p      == call.proc
      procs1 == IF ~st.procs[p].killed THEN kill(st.procs, p, "SIGKILL") ELSE st.procs
  IN  [procs    |-> procs1,
       sessions |-> st.sessions,
       calls    |-> [st.calls EXCEPT ![c] =
                       [@ EXCEPT !.pc = "returned", !.ret = TRUE, !.how = how,
                                 !.aliveAtEnd = st.procs[p].alive,
                                 !.absentAfter = (call.sid \notin DOMAIN st.sessions)]]]

\* The part after the await: runs when the timer fires or the subprocess exits.
terminateResume(st, c, how) ==
  LET call      == st.calls[c]
      p         == call.proc
      procs1    == IF ~st.procs[p].killed THEN kill(st.procs, p, "SIGKILL") ELSE st.procs
      sessions1 == MapDelete(st.sessions, call.sid)
  IN  [procs    |-> procs1,
       sessions |-> sessions1,
       calls    |-> [st.calls EXCEPT ![c] =
                       [@ EXCEPT !.pc = "returned", !.ret = TRUE, !.how = how,
                                 !.aliveAtEnd = st.procs[p].alive,
                                 !.absentAfter = (call.sid \notin DOMAIN sessions1)]]]

\* Variant: the buffer is cleared before the registry lookup.
TerminateSession_ClearFirst(sid) ==
  /\ Len(calls) < MaxCalls
  /\ sessionBuffers' = clearSessionBuffer(sessionBuffers, sid)
  /\ hist' = [hist EXCEPT ![sid] = HistInit]
  /\ channel' = ChannelClear(sid)
  /\ IF sid \notin DOMAIN sessions
     THEN /\ calls' = Append(calls, [sid |-> sid, proc |-> 0, pc |-> "returned", ret |-> FALSE,
                                     batch |-> 0, how |-> "none", aliveAtEnd |-> FALSE, absentAfter |-> TRUE,
                                     seenBufs |-> DOMAIN sessionBuffers,
                                     seenLive |-> {q \in DOMAIN procs : procs[q].alive}])
          /\ UNCHANGED <<procs, sessions>>
     ELSE LET p == sessions[sid] IN
          /\ procs' = IF ~procs[p].killed THEN kill(procs, p, "SIGTERM") ELSE procs
          /\ calls' = Append(calls, [sid |-> sid, proc |-> p, pc |-> "waiting", ret |-> FALSE,
                                     batch |-> 0, how |-> "none", aliveAtEnd |-> FALSE, absentAfter |-> FALSE,
                                     seenBufs |-> DOMAIN sessionBuffers,
                                     seenLive |-> {q \in DOMAIN procs : procs[q].alive}])
          /\ UNCHANGED sessions
  /\ UNCHANGED <<pipe, written>>
  /\ UNCHANGED otherVars

\* The part before the await, on st = [procs, sessions, sessionBuffers, hist,
\* channel, calls]: the call is appended to st.calls.
terminateStart(st, sid) ==
  IF sid \notin DOMAIN st.sessions
  THEN [st EXCEPT !.calls =
          Append(@, [sid |-> sid, proc |-> 0, pc |-> "returned", ret |-> FALSE,
                     batch |-> 0, how |-> "none", aliveAtEnd |-> FALSE, absentAfter |-> TRUE,
                     seenBufs |-> DOMAIN st.sessionBuffers,
                     seenLive |-> {q \in DOMAIN st.procs : st.procs[q].alive}])]
  ELSE LET p == st.sessions[sid] IN
       [st EXCEPT
          !.sessionBuffers = clearSessionBuffer(@, sid),
          !.hist = [@ EXCEPT ![sid] = HistInit],
          !.channel = [q \in DOMAIN @ |-> IF st.procs[q].sid = sid THEN <<>> ELSE @[q]],
          !.procs = IF ~@[p].killed THEN kill(@, p, "SIGTERM") ELSE @,
          !.calls = Append(@, [sid |-> sid, proc |-> p, pc |-> "waiting", ret |-> FALSE,
                               batch |-> 0, how |-> "none", aliveAtEnd |-> FALSE, absentAfter |-> FALSE,
                               seenBufs |-> DOMAIN st.sessionBuffers,
                               seenLive |-> {q \in DOMAIN st.procs : st.procs[q].alive}])]

\* A call terminateSession(sid) by any caller, up to its await.
TerminateSession(sid) ==
  /\ Len(calls) < MaxCalls
  /\ LET st == terminateStart([procs |-> procs, sessions |-> sessions,
                               sessionBuffers |-> sessionBuffers, hist |-> hist,
                               channel |-> channel, calls |-> calls], sid)
     IN  /\ procs' = st.procs
         /\ sessionBuffers' = st.sessionBuffers
         /\ hist' = st.hist
         /\ channel' = st.channel
         /\ calls' = st.calls
  /\ UNCHANGED <<sessions, pipe, written>>
  /\ UNCHANGED otherVars

\* ---------------------------------------------------------------- terminateAllSessions
\* Array.from(sessions.keys()): the ids in insertion order.
RECURSIVE KeySeq(_)
KeySeq(regs) ==
  IF DOMAIN regs = {} THEN <<>>
  ELSE LET k == CHOOSE k \in DOMAIN regs : \A j \in DOMAIN regs : regs[k] <= regs[j]
       IN  <<k>> \o KeySeq(MapDelete(regs, k))

\* The number of the latest terminateAllSessions call.
LastBatch == Cardinality({calls[c].batch : c \in DOMAIN calls} \ {0})

\* sessionIds.map((id) => terminateSession(id)): every call runs up to its
\* await before the next one starts; batch n marks the calls of this map.
RECURSIVE terminateEach(_, _, _)
terminateEach(st, ids, n) ==
  IF ids = <<>> THEN st
  ELSE LET st1 == terminateStart(st, Head(ids))
       IN  terminateEach([st1 EXCEPT !.calls = [@ EXCEPT ![Len(@)] = [@ EXCEPT !.batch = n]]],
                         Tail(ids), n)

\* Variant: the sessions are terminated one after the other, each call
\* starting when the previous one has returned.
TerminateAllSessions_Sequential ==
  /\ DOMAIN sessions # {}
  /\ Len(calls) < MaxCalls
  /\ \A c \in DOMAIN calls : calls[c].batch > 0 => calls[c].pc = "returned"
  /\ LET n  == IF LastBatch = 0 THEN 1 ELSE LastBatch
         st == terminateEach([procs |-> procs, sessions |-> sessions,
                              sessionBuffers |-> sessionBuffers, hist |-> hist,
                              channel |-> channel, calls |-> calls],
                             <<Head(KeySeq(sessions))>>, n)
     IN  /\ procs' = st.procs
         /\ sessionBuffers' = st.sessionBuffers
         /\ hist' = st.hist
         /\ channel' = st.channel
         /\ calls' = st.calls
  /\ UNCHANGED <<sessions, pipe, written>>
  /\ UNCHANGED otherVars

\* terminateAllSessions(), up to the await of Promise.all.
TerminateAllSessions ==
  /\ DOMAIN sessions # {}
  /\ Len(calls) + Cardinality(DOMAIN sessions) <= MaxCalls
  /\ LastBatch < MaxAllCalls
  /\ LET st == terminateEach([procs |-> procs, sessions |-> sessions,
                              sessionBuffers |-> sessionBuffers, hist |-> hist,
                              channel |-> channel, calls |-> calls],
                             KeySeq(sessions), LastBatch + 1)
     IN  /\ procs' = st.procs
         /\ sessionBuffers' = st.sessionBuffers
         /\ hist' = st.hist
         /\ channel' = st.channel
         /\ calls' = st.calls
  /\ UNCHANGED <<sessions, pipe, written>>
  /\ UNCHANGED otherVars

\* setTimeout(resolve, gracefulTimeout) fires while the call is still waiting.
TimerFires(c) ==
  /\ c \in DOMAIN calls
  /\ calls[c].pc = "waiting"
  /\ LET st == terminateResume([procs |-> procs, sessions |-> sessions, calls |-> calls],
                               c, "timeout")
     IN  /\ procs' = st.procs
         /\ sessions' = st.sessions
         /\ calls' = st.calls
  /\ UNCHANGED <<sessionBuffers, pipe, channel, written, hist>>
  /\ UNCHANGED otherVars

\* Variant: the listener cancels the timer and does not resolve the promise.
RECURSIVE exitListeners_NoResolve(_, _, _)
exitListeners_NoResolve(st, p, c) ==
  IF c > Len(st.calls) THEN st
  ELSE IF st.calls[c].pc = "waiting" /\ st.calls[c].proc = p
       THEN exitListeners_NoResolve(
              [st EXCEPT !.calls = [@ EXCEPT ![c] = [@ EXCEPT !.pc = "hung"]]], p, c + 1)
       ELSE exitListeners_NoResolve(st, p, c + 1)

\* Variant: the exit listener is not registered, only the timer ends the wait.
exitListeners_TimerOnly(st, p, c) == st

\* process.once('exit') listeners of the waiting calls, in registration order.
RECURSIVE exitListeners(_, _, _)
exitListeners(st, p, c) ==
  IF c > Len(st.calls) THEN st
  ELSE IF st.calls[c].pc = "waiting" /\ st.calls[c].proc = p
       THEN exitListeners(terminateResume(st, c, "exit"), p, c + 1)
       ELSE exitListeners(st, p, c + 1)

\* ---------------------------------------------------------------- subprocess stderr
\* Chunks the subprocess may write to stderr.
StderrChunks == {<<SP, LF>>, <<SP, "w", LF>>, <<"e", LEAD, CONT>>}

StderrEvents(p) ==
  Cardinality({k \in DOMAIN channel[p] : channel[p][k].type = "error"
                                           /\ channel[p][k].error_code = "CLI_STDERR"})

\* Variant: the untrimmed text is tested and sent.
StderrData_Untrimmed(p, chunk) ==
  /\ StderrEvents(p) < MaxStderr
  /\ LET stderrText == Utf8Decode(chunk)
         events == IF stderrText # <<>> THEN <<createErrorEvent(stderrText, "CLI_STDERR")>>
                   ELSE <<>>
         st == emitAll([streams |-> streams, count |-> activeRequestCount, chats |-> chats], p, events)
     IN  /\ channel' = [channel EXCEPT ![p] = @ \o events]
         /\ streams' = st.streams
         /\ activeRequestCount' = st.count
         /\ chats' = st.chats
  /\ UNCHANGED <<procs, sessions, sessionBuffers, calls, pipe, written, hist, signals>>
  /\ UNCHANGED <<routeVars, shutdown>>

\* cliProcess.stderr.on('data')
StderrData(p, chunk) ==
  /\ StderrEvents(p) < MaxStderr
  /\ LET stderrText == Trim(Utf8Decode(chunk))
         events == IF stderrText # <<>> THEN <<createErrorEvent(stderrText, "CLI_STDERR")>>
                   ELSE <<>>
         st == emitAll([streams |-> streams, count |-> activeRequestCount, chats |-> chats], p, events)
     IN  /\ channel' = [channel EXCEPT ![p] = @ \o events]
         /\ streams' = st.streams
         /\ activeRequestCount' = st.count
         /\ chats' = st.chats
  /\ UNCHANGED <<procs, sessions, sessionBuffers, calls, pipe, written, hist, signals>>
  /\ UNCHANGED <<routeVars, shutdown>>

\* ---------------------------------------------------------------- subprocess 'error' and 'exit'
Signal(p, name, arg) == [proc |-> p, name |-> name, arg |-> arg]

\* err.code and err.message of the errors a ChildProcess reports.
ProcessErrors ==
  {[code |-> "ENOENT", message |-> <<"spawn claude ENOENT">>],
   [code |-> "EACCES", message |-> <<"spawn claude EACCES">>],
   [code |-> "EPIPE",  message |-> <<"write EPIPE">>]}

errorCodeOf(err) ==
  IF err.code = "ENOENT" THEN "CLI_NOT_FOUND"
  ELSE IF err.code = "EACCES" THEN "CLI_PERMISSION_DENIED"
  ELSE "CLI_ERROR"

\* Variant: the internal signal is emitted before the event.
ProcError_SignalFirst(p, err) ==
  /\ Cardinality({k \in DOMAIN signals : signals[k].proc = p /\ signals[k].name = "cli-error"})
       < MaxErrors
  /\ LET event == createErrorEvent(err.message, errorCodeOf(err))
         st    == emitAll([streams |-> streams, count |-> activeRequestCount,
                           chats |-> emitError(chats, p, err)], p, <<event>>)
     IN  /\ channel' = [channel EXCEPT ![p] = Append(@, event)]
         /\ streams' = st.streams
         /\ activeRequestCount' = st.count
         /\ chats' = st.chats
         /\ signals' = signals \o <<Signal(p, "cli-error", err), Signal(p, "cli-event", event)>>
  /\ UNCHANGED <<procs, sessions, sessionBuffers, calls, pipe, written, hist>>
  /\ UNCHANGED <<routeVars, shutdown>>

\* cliProcess.on('error')
ProcError(p, err) ==
  /\ Cardinality({k \in DOMAIN signals : signals[k].proc = p /\ signals[k].name = "cli-error"})
       < MaxErrors
  /\ LET event == createErrorEvent(err.message, errorCodeOf(err))
         st    == emitAll([streams |-> streams, count |-> activeRequestCount, chats |-> chats], p, <<event>>)
     IN  /\ channel' = [channel EXCEPT ![p] = Append(@, event)]
         /\ streams' = st.streams
         /\ activeRequestCount' = st.count
         /\ chats' = emitError(st.chats, p, err)
         /\ signals' = signals \o <<Signal(p, "cli-event", event), Signal(p, "cli-error", err)>>
  /\ UNCHANGED <<procs, sessions, sessionBuffers, calls, pipe, written, hist>>
  /\ UNCHANGED <<routeVars, shutdown>>

\* How a subprocess can end: with an exit code, or killed by a delivered signal.
ExitOutcomes(ps, p) ==
  IF "SIGKILL" \in {ps[p].sigs[i] : i \in 1..Len(ps[p].sigs)}
  THEN {[hasCode |-> FALSE, code |-> 0, signal |-> "SIGKILL"]}
  ELSE {[hasCode |-> TRUE, code |-> 0, signal |-> "null"],
        [hasCode |-> TRUE, code |-> 1, signal |-> "null"]}
       \cup {[hasCode |-> FALSE, code |-> 0, signal |-> ps[p].sigs[i]] : i \in 1..Len(ps[p].sigs)}

\* Variant: the exit handler removes the session from the registry.
ProcExit_DeleteOnExit(p, o) ==
  /\ procs[p].alive
  /\ o \in ExitOutcomes(procs, p)
  /\ LET events == IF o.hasCode /\ o.code # 0
                   THEN <<createErrorEvent(<<"CLI exited with code ", ToString(o.code)>>,
                                           "CLI_EXIT_ERROR")>>
                   ELSE <<>>
         st == emitAll([streams |-> streams, count |-> activeRequestCount, chats |-> chats], p, events)
     IN  /\ channel' = [channel EXCEPT ![p] = @ \o events]
         /\ streams' = st.streams
         /\ activeRequestCount' = st.count
         /\ chats' = st.chats
         /\ signals' = signals \o [k \in 1..Len(events) |-> Signal(p, "cli-event", events[k])]
                                \o <<Signal(p, "cli-exit", [code |-> IF o.hasCode THEN JNum(o.code) ELSE Null,
                                                             signal |-> o.signal])>>
  /\ LET st == exitListeners([procs |-> [procs EXCEPT ![p].alive = FALSE],
                              sessions |-> sessions, calls |-> calls], p, 1)
     IN  /\ procs' = st.procs
         /\ sessions' = MapDelete(st.sessions, procs[p].sid)
         /\ calls' = st.calls
  /\ UNCHANGED <<sessionBuffers, pipe, written, hist>>
  /\ UNCHANGED <<routeVars, shutdown>>

\* cliProcess.on('exit'), followed by the listeners of the waiting terminate calls.
ProcExit(p, o) ==
  /\ procs[p].alive
  /\ o \in ExitOutcomes(procs, p)
  /\ LET events == IF o.hasCode /\ o.code # 0
                   THEN <<createErrorEvent(<<"CLI exited with code ", ToString(o.code)>>,
                                           "CLI_EXIT_ERROR")>>
                   ELSE <<>>
         st == emitAll([streams |-> streams, count |-> activeRequestCount, chats |-> chats], p, events)
     IN  /\ channel' = [channel EXCEPT ![p] = @ \o events]
         /\ streams' = st.streams
         /\ activeRequestCount' = st.count
         /\ chats' = st.chats
         /\ signals' = signals \o [k \in 1..Len(events) |-> Signal(p, "cli-event", events[k])]
                                \o <<Signal(p, "cli-exit", [code |-> IF o.hasCode THEN JNum(o.code) ELSE Null,
                                                             signal |-> o.signal])>>
  /\ LET st == exitListeners([procs |-> [procs EXCEPT ![p].alive = FALSE],
                              sessions |-> sessions, calls |-> calls], p, 1)
     IN  /\ procs' = st.procs
         /\ sessions' = st.sessions
         /\ calls' = st.calls
  /\ UNCHANGED <<sessionBuffers, pipe, written, hist>>
  /\ UNCHANGED <<routeVars, shutdown>>

\* ---------------------------------------------------------------- specifications
Init ==
  /\ procs = <<>>
  /\ sessions = EmptyMap
  /\ sessionBuffers = EmptyMap
  /\ calls = <<>>
  /\ pipe = <<>>
  /\ channel = <<>>
  /\ written = 0
  /\ hist = [sid \in AllIds |-> HistInit]
  /\ mapper = MapperIdle
  /\ cliAvailable = TRUE
  /\ lastSpawn = NoSpawn
  /\ restarts = <<>>
  /\ globalSession = 0
  /\ stdin = EmptyMap
  /\ sends = <<>>
  /\ streams = <<>>
  /\ activeRequestCount = 0
  /\ signals = <<>>
  /\ chats = <<>>
  /\ shutdown = NoShutdown

Next ==
  \/ \E sid \in SessionIds : SpawnCLISession(sid, NoOptions)
  \/ \E sid \in SessionIds : TerminateSession(sid)
  \/ \E c \in 1..MaxCalls : TimerFires(c)
  \/ \E p \in DOMAIN procs : \E o \in ExitOutcomes(procs, p) : ProcExit(p, o)

Spec == Init /\ [][Next]_vars

\* Timers of the event loop fire: a waiting terminateSession is resumed.
LiveSpec == Spec /\ \A c \in 1..MaxCalls : WF_vars(TimerFires(c))

\* The stdout path alone: two sessions with distinct ids have been spawned.
InitParser ==
  /\ procs = <<[sid |-> "A", alive |-> TRUE, killed |-> FALSE, sigs |-> <<>>, args |-> BaseArgs, mode |-> "streaming"],
               [sid |-> "B", alive |-> TRUE, killed |-> FALSE, sigs |-> <<>>, args |-> BaseArgs, mode |-> "streaming"]>>
  /\ sessions = MapSet(MapSet(EmptyMap, "A", 1), "B", 2)
  /\ sessionBuffers = EmptyMap
  /\ calls = <<>>
  /\ pipe = <<<<>>, <<>>>>
  /\ channel = <<<<>>, <<>>>>
  /\ written = 0
  /\ hist = [sid \in AllIds |-> HistInit]
  /\ mapper = MapperIdle
  /\ cliAvailable = TRUE
  /\ lastSpawn = NoSpawn
  /\ restarts = <<>>
  /\ globalSession = 0
  /\ stdin = EmptyMap
  /\ sends = <<>>
  /\ streams = <<>>
  /\ activeRequestCount = 0
  /\ signals = <<>>
  /\ chats = <<>>
  /\ shutdown = NoShutdown

NextParser ==
  \/ \E p \in DOMAIN procs : \E line \in StdoutLines : written < MaxLines /\ ProcWrite(p, line)
  \/ \E p \in DOMAIN procs : \E n \in 1..Len(pipe[p]) : StdoutData(p, n)
  \/ \E sid \in SessionIds : ClearSessionBufferCall(sid)

SpecParser == InitParser /\ [][NextParser]_vars

\* The stdout path fed with lines that hold several tool_use blocks.
NextToolUse ==
  \/ \E p \in DOMAIN procs : \E line \in ToolUseLines : written < MaxLines /\ ProcWrite(p, line)
  \/ \E p \in DOMAIN procs : \E n \in 1..Len(pipe[p]) : StdoutData(p, n)
  \/ \E sid \in SessionIds : ClearSessionBufferCall(sid)

SpecToolUse == InitParser /\ [][NextToolUse]_vars

\* Termination under stdout traffic: session A has been spawned, B is unknown.
InitTerm ==
  /\ procs = <<[sid |-> "A", alive |-> TRUE, killed |-> FALSE, sigs |-> <<>>, args |-> BaseArgs, mode |-> "streaming"]>>
  /\ sessions = MapSet(EmptyMap, "A", 1)
  /\ sessionBuffers = EmptyMap
  /\ calls = <<>>
  /\ pipe = <<<<>>>>
  /\ channel = <<<<>>>>
  /\ written = 0
  /\ hist = [sid \in AllIds |-> HistInit]
  /\ mapper = MapperIdle
  /\ cliAvailable = TRUE
  /\ lastSpawn = NoSpawn
  /\ restarts = <<>>
  /\ globalSession = 0
  /\ stdin = EmptyMap
  /\ sends = <<>>
  /\ streams = <<>>
  /\ activeRequestCount = 0
  /\ signals = <<>>
  /\ chats = <<>>
  /\ shutdown = NoShutdown

NextTerm ==
  \/ \E sid \in SessionIds : TerminateSession(sid)
  \/ \E c \in 1..MaxCalls : TimerFires(c)
  \/ \E p \in DOMAIN procs : \E o \in ExitOutcomes(procs, p) : ProcExit(p, o)
  \/ \E p \in DOMAIN procs : \E line \in LifeLines : written < MaxWrites /\ ProcWrite(p, line)
  \/ \E p \in DOMAIN procs : \E n \in 1..Len(pipe[p]) : StdoutData(p, n)

SpecTerm == InitTerm /\ [][NextTerm]_vars

\* Shutdown of the registry: sessions A and B have been spawned.
NextAll ==
  \/ TerminateAllSessions
  \/ \E sid \in SessionIds : TerminateSession(sid)
  \/ \E c \in 1..MaxCalls : TimerFires(c)
  \/ \E p \in DOMAIN procs : \E o \in ExitOutcomes(procs, p) : ProcExit(p, o)

SpecAll == InitParser /\ [][NextAll]_vars

\* The handlers of one subprocess: session A has been spawned.
NextProc ==
  \/ \E p \in DOMAIN procs : \E line \in LifeLines : written < MaxWrites /\ ProcWrite(p, line)
  \/ \E p \in DOMAIN procs : \E n \in 1..Len(pipe[p]) : StdoutData(p, n)
  \/ \E p \in DOMAIN procs : \E chunk \in StderrChunks : StderrData(p, chunk)
  \/ \E p \in DOMAIN procs : \E err \in ProcessErrors : ProcError(p, err)
  \/ \E p \in DOMAIN procs : \E o \in ExitOutcomes(procs, p) : ProcExit(p, o)
  \/ Len(calls) < MaxStreamCalls /\ TerminateSession("A")
  \/ \E c \in 1..MaxCalls : TimerFires(c)

SpecProc == InitTerm /\ [][NextProc]_vars

\* ---------------------------------------------------------------- parsed lines
\* The JSON values a complete stdout line can parse to.  A key whose value is
\* Undefined stands for a key the object does not have.
TextBlock  == [type |-> "text", text |-> JStr(<<"h", "i">>)]
ThinkBlock == [type |-> "thinking", thinking |-> JStr(<<"w", "h", "y">>)]
NamedTool  == [type |-> "tool_use", name |-> JStr(<<"Bash">>),
               input |-> [command |-> JStr(<<"l", "s">>)]]
AliasTool  == [type |-> "tool_use", tool |-> JStr(<<"Edit">>)]
BareTool   == [type |-> "tool_use"]
BadTool    == [type |-> "tool_use", name |-> JNum(5)]
ToolBlocks == {NamedTool, AliasTool, BareTool, BadTool}
Blocks     == {TextBlock, ThinkBlock, [type |-> "text", text |-> JNum(5)], Null} \cup ToolBlocks

ContentArrays == UNION {[1..k -> Blocks] : k \in 0..MaxBlocks}

MessageLines ==
  {[type |-> t, message |-> [role |-> JStr(<<"assistant">>), content |-> JArr(c)]] :
     t \in {"assistant", "message", "tool_use", "tool_use_calls"}, c \in ContentArrays}
  \cup {[type |-> t, message |-> m] :
          t \in {"assistant", "message", "tool_use"},
          m \in {Undefined, Null, JStr(<<"h", "i">>), [content |-> JStr(<<"h", "i">>)],
                 [content |-> JNum(5)], [content |-> Null]}}

Tokens == {Undefined, Null, JNum(0), JNum(5), JStr(<<"5">>)}

ResultLines ==
  {[type |-> t, usage |-> u, input_tokens |-> a, output_tokens |-> JNum(3)] :
     t \in {"result", "complete"},
     u \in {Undefined, Null} \cup {[input_tokens |-> i, output_tokens |-> JNum(3)] : i \in Tokens},
     a \in Tokens}

ToolResultLines ==
  {[type |-> t, result |-> r, is_cached |-> c] :
     t \in {"tool_result", "tool_results"},
     r \in {Undefined, JStr(<<>>), JStr(<<"o", "k">>), JNum(5)},
     c \in {Undefined, Null, JBool(TRUE), JBool(FALSE), JStr(<<"y">>)}}

Todos ==
  {[content |-> c, status |-> s, active_form |-> f, activeForm |-> g] :
     c \in {Undefined, JStr(<<"a">>), JNum(5)},
     s \in {Undefined, PENDING, COMPLETED, JStr(<<"bogus">>)},
     f \in {Undefined, JStr(<<"b">>)},
     g \in {Undefined, JNum(5)}}

ProgressLines ==
  {[type |-> t, todos |-> d] :
     t \in {"progress", "todo"},
     d \in {Undefined, JStr(<<"a">>), JArr(<<>>), JArr(<<Null>>)} \cup {JArr(<<x>>) : x \in Todos}}

ArtifactLines ==
  {[type |-> t, file_path |-> p, path |-> q, content |-> c, action |-> a] :
     t \in {"artifact", "file"},
     p \in {Undefined, JStr(<<>>), JStr(<<"f">>), JNum(5)},
     q \in {Undefined, JStr(<<"g">>)},
     c \in {Undefined, JStr(<<"x">>), JNum(5)},
     a \in {Undefined, CREATE, JStr(<<"delete">>)}}

OtherLines ==
  {[type |-> "system"], [type |-> "init"], [type |-> "bogus"], [foo |-> JNum(1)],
   Null, JStr(<<"h", "i">>), JNum(5), JBool(TRUE), JArr(<<>>)}

ParsedLines ==
  MessageLines \cup ResultLines \cup ToolResultLines \cup ProgressLines
    \cup ArtifactLines \cup OtherLines

\* JSON.parse(line) succeeded with value v.
LineParsed(v) ==
  /\ mapper.phase = "idle"
  /\ mapper' = [phase |-> "parsed", in |-> v, out |-> <<>>]
  /\ UNCHANGED <<procs, sessions, sessionBuffers, calls, pipe, channel, written, hist>>
  /\ UNCHANGED <<cliAvailable, lastSpawn, restarts, globalSession, stdin, sends>>
  /\ UNCHANGED <<sseVars, signals, reqVars>>

\* const event = mapCLIEventToSSE(parsed, sessionId); if (event) events.push(event)
LineMapped ==
  /\ mapper.phase = "parsed"
  /\ LET event == mapCLIEventToSSE(mapper.in, "A") IN
     mapper' = [mapper EXCEPT !.phase = "mapped",
                              !.out = IF event # Null THEN Append(@, event) ELSE @]
  /\ UNCHANGED <<procs, sessions, sessionBuffers, calls, pipe, channel, written, hist>>
  /\ UNCHANGED <<cliAvailable, lastSpawn, restarts, globalSession, stdin, sends>>
  /\ UNCHANGED <<sseVars, signals, reqVars>>

NextMapper ==
  \/ \E v \in ParsedLines : LineParsed(v)
  \/ LineMapped

SpecMapper == Init /\ [][NextMapper]_vars

\* ---------------------------------------------------------------- POST /api/chat/restart
MAX_TOOL_NAME_LENGTH == 50
MaxAllowedTools == 20

Letters == {"B", "a", "s", "h", "E", "d", "i", "t", "m", "c", "p", "x"}
Digits  == {"1", "2"}

\* /^[A-Za-z][A-Za-z0-9_-]*$/.test(tool)
ToolNamePattern(tool) ==
  /\ tool # <<>>
  /\ tool[1] \in Letters
  /\ \A i \in 2..Len(tool) : tool[i] \in Letters \cup Digits \cup {"_", "-"}

Includes(list, x) == \E i \in 1..Len(list) : list[i] = x

\* The validation loop over the entries: 400 at the first bad entry, else the
\* entries in order without duplicates.
\* Variant: the name pattern is not tested.
RECURSIVE sanitizeTools_NoPattern(_, _)
sanitizeTools_NoPattern(entries, sanitizedTools) ==
  IF entries = <<>> THEN [status |-> 200, tools |-> sanitizedTools]
  ELSE LET tool == Head(entries) IN
       IF ~IsString(tool) THEN [status |-> 400, tools |-> <<>>]
       ELSE IF Len(tool.str) > MAX_TOOL_NAME_LENGTH THEN [status |-> 400, tools |-> <<>>]
       ELSE sanitizeTools_NoPattern(Tail(entries),
                                    IF Includes(sanitizedTools, tool.str) THEN sanitizedTools
                                    ELSE Append(sanitizedTools, tool.str))

RECURSIVE sanitizeTools(_, _)
sanitizeTools(entries, sanitizedTools) ==
  IF entries = <<>> THEN [status |-> 200, tools |-> sanitizedTools]
  ELSE LET tool == Head(entries) IN
       IF ~IsString(tool) THEN [status |-> 400, tools |-> <<>>]
       ELSE IF Len(tool.str) > MAX_TOOL_NAME_LENGTH THEN [status |-> 400, tools |-> <<>>]
       ELSE IF ~ToolNamePattern(tool.str) THEN [status |-> 400, tools |-> <<>>]
       ELSE sanitizeTools(Tail(entries),
                          IF Includes(sanitizedTools, tool.str) THEN sanitizedTools
                          ELSE Append(sanitizedTools, tool.str))

validateAllowedTools(allowedTools) ==
  IF ~Truthy(allowedTools) \/ ~IsArray(allowedTools) THEN [status |-> 400, tools |-> <<>>]
  ELSE IF Len(allowedTools.arr) > MaxAllowedTools THEN [status |-> 400, tools |-> <<>>]
  ELSE sanitizeTools(allowedTools.arr, <<>>)

\* Request bodies: sessionId "" stands for a missing one.
ToolEntries ==
  {JStr(<<"B", "a", "s", "h">>), JStr(<<"E", "d", "i", "t">>), JStr(<<"m", "c", "p", "_", "1">>),
   JStr(<<"-", "-", "x">>), JNum(5)}
\* Bodies at and beyond the two limits: a name of n letters, n times one name.
LongName(n) == JStr([i \in 1..n |-> "a"])
ManyTools(n) == JArr([i \in 1..n |-> JStr(<<"B", "a", "s", "h">>)])
LimitBodies ==
  {JArr(<<LongName(MAX_TOOL_NAME_LENGTH)>>), JArr(<<LongName(MAX_TOOL_NAME_LENGTH + 1)>>),
   ManyTools(MaxAllowedTools), ManyTools(MaxAllowedTools + 1)}
AllowedToolsBodies ==
  {Undefined, Null, JStr(<<"B", "a", "s", "h">>)}
    \cup {JArr(a) : a \in UNION {[1..k -> ToolEntries] : k \in 0..MaxTools}}
    \cup LimitBodies

RestartDone(sid, status) ==
  [sid |-> sid, tools |-> <<>>, pc |-> "done", status |-> status, call |-> 0, proc |-> 0]

\* The handler up to `await terminateSession(sessionId)`.
RestartRequest(sessionId, allowedTools) ==
  /\ Len(restarts) < MaxRestarts
  /\ LET v == validateAllowedTools(allowedTools) IN
     IF sessionId = "" \/ v.status = 400
     THEN /\ restarts' = Append(restarts, RestartDone(sessionId, 400))
          /\ UNCHANGED <<procs, sessionBuffers, hist, channel, calls>>
     ELSE IF sessionId \notin DOMAIN sessions
     THEN /\ restarts' = Append(restarts, RestartDone(sessionId, 404))
          /\ UNCHANGED <<procs, sessionBuffers, hist, channel, calls>>
     ELSE /\ Len(calls) < MaxCalls
          /\ LET st == terminateStart([procs |-> procs, sessions |-> sessions,
                                       sessionBuffers |-> sessionBuffers, hist |-> hist,
                                       channel |-> channel, calls |-> calls], sessionId)
             IN  /\ procs' = st.procs
                 /\ sessionBuffers' = st.sessionBuffers
                 /\ hist' = st.hist
                 /\ channel' = st.channel
                 /\ calls' = st.calls
          /\ restarts' = Append(restarts, [sid |-> sessionId, tools |-> v.tools,
                                           pc |-> "terminating", status |-> 0,
                                           call |-> Len(calls) + 1, proc |-> 0])
  /\ UNCHANGED <<sessions, pipe, written, mapper, cliAvailable, lastSpawn, globalSession, stdin, sends>>
  /\ UNCHANGED <<sseVars, signals, reqVars>>

\* The handler after the await: spawn with resume and the sanitized tools,
\* then setGlobalSession(newSession).  A throwing spawn is answered with 500.
RestartResume(r, uuid) ==
  /\ r \in DOMAIN restarts
  /\ restarts[r].pc = "terminating"
  /\ calls[restarts[r].call].pc = "returned"
  /\ IF ~calls[restarts[r].call].ret
     THEN /\ restarts' = [restarts EXCEPT ![r] = [@ EXCEPT !.pc = "done", !.status = 500]]
          /\ UNCHANGED <<procs, pipe, channel, sessions, lastSpawn, globalSession>>
          /\ UNCHANGED <<sseVars, signals, reqVars>>
     ELSE /\ Len(procs) < MaxProcs
          /\ lastSpawn.n < MaxSpawnCalls
          /\ uuid \notin {procs[p].sid : p \in DOMAIN procs}
          /\ LET options == [continue |-> FALSE, resume |-> restarts[r].sid,
                             allowedTools |-> restarts[r].tools]
                 st == spawnCLISession([procs |-> procs, pipe |-> pipe, channel |-> channel,
                                        sessions |-> sessions], cliAvailable, uuid, options)
             IN  /\ procs' = st.procs
                 /\ pipe' = st.pipe
                 /\ channel' = st.channel
                 /\ sessions' = st.sessions
                 /\ lastSpawn' = [n |-> lastSpawn.n + 1, sid |-> uuid,
                                  threw |-> st.result.threw, proc |-> st.result.proc]
                 /\ IF st.result.threw # "none"
                    THEN /\ restarts' = [restarts EXCEPT ![r] =
                                           [@ EXCEPT !.pc = "done", !.status = 500]]
                         /\ UNCHANGED globalSession
                    ELSE /\ restarts' = [restarts EXCEPT ![r] =
                                           [@ EXCEPT !.pc = "done", !.status = 200,
                                                     !.proc = st.result.proc]]
                         /\ globalSession' = st.result.proc
  /\ UNCHANGED <<sessionBuffers, calls, written, hist, mapper, cliAvailable, stdin, sends>>
  /\ UNCHANGED <<sseVars, signals, reqVars>>

\* The server has started: the global session was spawned with a generated id.
InitRestart ==
  /\ procs = <<[sid |-> "U1", alive |-> TRUE, killed |-> FALSE, sigs |-> <<>>, args |-> BaseArgs, mode |-> "streaming"]>>
  /\ sessions = MapSet(EmptyMap, "U1", 1)
  /\ sessionBuffers = EmptyMap
  /\ calls = <<>>
  /\ pipe = <<<<>>>>
  /\ channel = <<<<>>>>
  /\ written = 0
  /\ hist = [sid \in AllIds |-> HistInit]
  /\ mapper = MapperIdle
  /\ cliAvailable = TRUE
  /\ lastSpawn = [n |-> 1, sid |-> "U1", threw |-> "none", proc |-> 1]
  /\ restarts = <<>>
  /\ globalSession = 1
  /\ stdin = EmptyMap
  /\ sends = <<>>
  /\ streams = <<>>
  /\ activeRequestCount = 0
  /\ signals = <<>>
  /\ chats = <<>>
  /\ shutdown = NoShutdown

SpawnOptionsSet ==
  {NoOptions, [NoOptions EXCEPT !.continue = TRUE], [NoOptions EXCEPT !.resume = "U1"],
   [NoOptions EXCEPT !.continue = TRUE, !.resume = "U1"]}

NextRestart ==
  \/ \E b \in BOOLEAN : CliAvailability(b)
  \/ \E sid \in SessionIds : \E options \in SpawnOptionsSet : SpawnCLISession(sid, options)
  \/ \E sid \in {"", "A", "U1"} : \E body \in AllowedToolsBodies : RestartRequest(sid, body)
  \/ \E r \in 1..MaxRestarts : \E uuid \in UUIDs : RestartResume(r, uuid)
  \/ \E c \in 1..MaxCalls : TimerFires(c)
  \/ \E p \in DOMAIN procs : \E o \in ExitOutcomes(procs, p) : ProcExit(p, o)

SpecRestart == InitRestart /\ [][NextRestart]_vars

\* Restart requests only, each naming a session id the server has handed out.
SharedBodies == {JArr(<<>>), JArr(<<JStr(<<"B", "a", "s", "h">>)>>)}

NextShared ==
  \/ \E sid \in UUIDs : \E body \in SharedBodies : RestartRequest(sid, body)
  \/ \E r \in 1..MaxRestarts : \E uuid \in UUIDs : RestartResume(r, uuid)
  \/ \E c \in 1..MaxCalls : TimerFires(c)
  \/ \E p \in DOMAIN procs : \E o \in ExitOutcomes(procs, p) : ProcExit(p, o)

SpecShared == InitRestart /\ [][NextShared]_vars

\* ---------------------------------------------------------------- subprocess stdin
\* The Writable of a subprocess: chunks handed to write() (writes), of which
\* some still sit in the stream's buffer (queue) and the others reached the
\* subprocess (received).  A subprocess without an entry has the open, empty
\* stream spawn() created.
OpenStdin ==
  [present |-> TRUE, destroyed |-> FALSE, closed |-> FALSE, ended |-> FALSE, writes |-> <<>>,
   queue |-> <<>>, received |-> <<>>, needDrain |-> FALSE, drainListeners |-> 0]

StdinOf(p) == MapGet(stdin, p, OpenStdin)

\* What one stdin.write(chunk, 'utf8') call can do: accept the chunk and return
\* true, accept it and return false (buffer at the high-water mark), or throw.
WriteOutcomes == {"ok", "backpressure", "throw"}

\* Variant: a chunk that meets backpressure is not buffered.
stdinWrite_DropOnBackpressure(s, chunk, outcome) ==
  IF outcome = "throw" THEN [stream |-> s, returned |-> FALSE, threw |-> TRUE]
  ELSE IF outcome = "ok"
  THEN [stream |-> [s EXCEPT !.writes = Append(@, chunk), !.queue = Append(@, chunk)],
        returned |-> TRUE, threw |-> FALSE]
  ELSE [stream |-> [s EXCEPT !.writes = Append(@, chunk), !.needDrain = TRUE],
        returned |-> FALSE, threw |-> FALSE]

\* A write after end() does not throw: it returns false, takes nothing and
\* destroys the stream with ERR_STREAM_WRITE_AFTER_END.
stdinWrite(s, chunk, outcome) ==
  IF outcome = "throw" THEN [stream |-> s, returned |-> FALSE, threw |-> TRUE]
  ELSE IF s.ended
  THEN [stream |-> [s EXCEPT !.destroyed = TRUE, !.queue = <<>>],
        returned |-> FALSE, threw |-> FALSE]
  ELSE IF outcome = "ok"
  THEN [stream |-> [s EXCEPT !.writes = Append(@, chunk), !.queue = Append(@, chunk)],
        returned |-> TRUE, threw |-> FALSE]
  ELSE [stream |-> [s EXCEPT !.writes = Append(@, chunk), !.queue = Append(@, chunk),
                             !.needDrain = TRUE],
        returned |-> FALSE, threw |-> FALSE]

\* The subprocess reads one buffered chunk; when the buffer empties after a
\* write returned false, 'drain' is emitted and the once-listeners run and go.
StdinFlush(p) ==
  /\ p \in DOMAIN procs
  /\ StdinOf(p).queue # <<>>
  /\ ~StdinOf(p).destroyed
  /\ LET s == StdinOf(p)
         drained == Len(s.queue) = 1 /\ s.needDrain
     IN  stdin' = MapSet(stdin, p,
                         [s EXCEPT !.received = Append(@, Head(s.queue)),
                                   !.queue = Tail(@),
                                   !.needDrain = IF drained THEN FALSE ELSE @,
                                   !.drainListeners = IF drained THEN 0 ELSE @])
  /\ UNCHANGED <<procs, sessions, sessionBuffers, calls, pipe, channel, written, hist>>
  /\ UNCHANGED <<mapper, cliAvailable, lastSpawn, restarts, globalSession, sends>>
  /\ UNCHANGED <<sseVars, signals, reqVars>>

\* The stream is destroyed (the pipe broke or the subprocess is gone): what
\* is still buffered is discarded.
StdinDestroy(p) ==
  /\ p \in DOMAIN procs
  /\ StdinOf(p).present
  /\ ~StdinOf(p).destroyed
  /\ stdin' = MapSet(stdin, p, [StdinOf(p) EXCEPT !.destroyed = TRUE, !.queue = <<>>])
  /\ UNCHANGED <<procs, sessions, sessionBuffers, calls, pipe, channel, written, hist>>
  /\ UNCHANGED <<mapper, cliAvailable, lastSpawn, restarts, globalSession, sends>>
  /\ UNCHANGED <<sseVars, signals, reqVars>>

\* 'close' is emitted on a destroyed stream.
StdinClose(p) ==
  /\ p \in DOMAIN procs
  /\ StdinOf(p).destroyed
  /\ ~StdinOf(p).closed
  /\ stdin' = MapSet(stdin, p, [StdinOf(p) EXCEPT !.closed = TRUE])
  /\ UNCHANGED <<procs, sessions, sessionBuffers, calls, pipe, channel, written, hist>>
  /\ UNCHANGED <<mapper, cliAvailable, lastSpawn, restarts, globalSession, sends>>
  /\ UNCHANGED <<sseVars, signals, reqVars>>

\* ---------------------------------------------------------------- JSON.stringify
QUOTE  == "\""
BSLASH == "\\"
\* The serialization around the text of the envelope
\* {type:'user', message:{role:'user', content:[{type:'text', text}]}}.
ENVELOPE_OPEN  == "{\"type\":\"user\",\"message\":{\"role\":\"user\",\"content\":[{\"type\":\"text\",\"text\":"
ENVELOPE_CLOSE == "}]}}"

RECURSIVE Escape(_)
Escape(text) ==
  IF text = <<>> THEN <<>>
  ELSE (IF Head(text) = QUOTE THEN <<BSLASH, QUOTE>>
        ELSE IF Head(text) = BSLASH THEN <<BSLASH, BSLASH>>
        ELSE IF Head(text) = LF THEN <<BSLASH, "n">>
        ELSE <<Head(text)>>) \o Escape(Tail(text))

\* Variant: the text is put between the quotes as it is.
formatStreamingMessage_Raw(message) ==
  <<ENVELOPE_OPEN, QUOTE>> \o message \o <<QUOTE, ENVELOPE_CLOSE>>

formatStreamingMessage(message) ==
  <<ENVELOPE_OPEN, QUOTE>> \o Escape(message) \o <<QUOTE, ENVELOPE_CLOSE>>

\* ---------------------------------------------------------------- sendMessage
\* Variant: no try/catch around the write.
sendMessage_NoCatch(regs, ps, ins, sessionId, message, outcome) ==
  IF sessionId \notin DOMAIN regs
  THEN [stdin |-> ins, ret |-> FALSE, raised |-> FALSE, outcome |-> "none", chunk |-> <<>>]
  ELSE LET p == regs[sessionId]
           s == MapGet(ins, p, OpenStdin)
       IN  IF ~s.present \/ s.destroyed \/ s.closed
           THEN [stdin |-> ins, ret |-> FALSE, raised |-> FALSE, outcome |-> "none",
                 chunk |-> <<>>]
           ELSE LET payload == IF ps[p].mode = "streaming"
                               THEN formatStreamingMessage(message) ELSE message
                    w == stdinWrite(s, payload \o <<LF>>, outcome)
                IN  IF w.threw
                    THEN [stdin |-> ins, ret |-> FALSE, raised |-> TRUE, outcome |-> outcome,
                          chunk |-> payload \o <<LF>>]
                    ELSE [stdin |-> MapSet(ins, p,
                                      IF w.returned THEN w.stream
                                      ELSE [w.stream EXCEPT !.drainListeners = @ + 1]),
                          ret |-> TRUE, raised |-> FALSE, outcome |-> outcome,
                          chunk |-> payload \o <<LF>>]

\* On the registry regs, the sessions ps and the stdin streams ins.  Result: the
\* streams, the return value, whether the call raised, what the write did
\* ("none": no write was attempted) and the chunk handed to write().
sendMessage(regs, ps, ins, sessionId, message, outcome) ==
  IF sessionId \notin DOMAIN regs
  THEN [stdin |-> ins, ret |-> FALSE, raised |-> FALSE, outcome |-> "none", chunk |-> <<>>]
  ELSE LET p == regs[sessionId]
           s == MapGet(ins, p, OpenStdin)
       IN  IF ~s.present \/ s.destroyed \/ s.closed
           THEN [stdin |-> ins, ret |-> FALSE, raised |-> FALSE, outcome |-> "none",
                 chunk |-> <<>>]
           ELSE LET payload == IF ps[p].mode = "streaming"
                               THEN formatStreamingMessage(message) ELSE message
                    w == stdinWrite(s, payload \o <<LF>>, outcome)
                IN  IF w.threw
                    THEN [stdin |-> ins, ret |-> FALSE, raised |-> FALSE, outcome |-> outcome,
                          chunk |-> payload \o <<LF>>]
                    ELSE [stdin |-> MapSet(ins, p,
                                      IF w.returned THEN w.stream
                                      ELSE [w.stream EXCEPT !.drainListeners = @ + 1]),
                          ret |-> TRUE, raised |-> FALSE, outcome |-> outcome,
                          chunk |-> payload \o <<LF>>]

\* A call sendMessage(sessionId, message) by any caller.
SendMessage(sessionId, message, outcome) ==
  /\ Len(sends) < MaxSends
  /\ LET r == sendMessage(sessions, procs, stdin, sessionId, message, outcome) IN
     /\ stdin' = r.stdin
     /\ sends' = Append(sends, [sid |-> sessionId, text |-> message, ret |-> r.ret,
                                raised |-> r.raised, outcome |-> r.outcome,
                                chunk |-> r.chunk,
                                proc |-> IF sessionId \in DOMAIN sessions
                                         THEN sessions[sessionId] ELSE 0,
                                at |-> IF r.outcome \in {"ok", "backpressure"}
                                       THEN Len(r.stdin[sessions[sessionId]].writes) ELSE 0])
  /\ UNCHANGED <<procs, sessions, sessionBuffers, calls, pipe, channel, written, hist>>
  /\ UNCHANGED <<mapper, cliAvailable, lastSpawn, restarts, globalSession>>
  /\ UNCHANGED <<sseVars, signals, reqVars>>

\* ---------------------------------------------------------------- endInput
\* stdin.end() marks the stream as ended; what is buffered is still flushed,
\* and destroyed and closed turn true only later, when the stream has finished.
endInput(regs, ins, sessionId) ==
  IF sessionId \notin DOMAIN regs THEN [stdin |-> ins, ret |-> FALSE]
  ELSE LET p == regs[sessionId]
           s == MapGet(ins, p, OpenStdin)
       IN  IF ~s.present \/ s.destroyed \/ s.closed
           THEN [stdin |-> ins, ret |-> FALSE]
           ELSE [stdin |-> MapSet(ins, p, [s EXCEPT !.ended = TRUE]), ret |-> TRUE]

\* A call endInput(sessionId) by any caller, logged beside the sends.
EndInput(sessionId) ==
  /\ Len(sends) < MaxSends
  /\ LET r == endInput(sessions, stdin, sessionId) IN
     /\ stdin' = r.stdin
     /\ sends' = Append(sends, [sid |-> sessionId, text |-> <<>>, ret |-> r.ret,
                                raised |-> FALSE, outcome |-> "end", chunk |-> <<>>,
                                proc |-> IF sessionId \in DOMAIN sessions
                                         THEN sessions[sessionId] ELSE 0,
                                at |-> 0])
  /\ UNCHANGED <<procs, sessions, sessionBuffers, calls, pipe, channel, written, hist>>
  /\ UNCHANGED <<mapper, cliAvailable, lastSpawn, restarts, globalSession>>
  /\ UNCHANGED <<sseVars, signals, reqVars>>

\* Message texts: plain, with characters JSON escapes, with a line break.
Texts == {<<"H", "i">>, <<QUOTE, BSLASH>>, <<"a", LF, "b">>}

\* Two registered sessions, one of each input mode of the CLISession type;
\* the second one's subprocess may have no stdin.
InitSend ==
  /\ procs = <<[sid |-> "A", alive |-> TRUE, killed |-> FALSE, sigs |-> <<>>,
                args |-> BaseArgs, mode |-> "streaming"],
               [sid |-> "B", alive |-> TRUE, killed |-> FALSE, sigs |-> <<>>,
                args |-> BaseArgs, mode |-> "per-message"]>>
  /\ sessions = MapSet(MapSet(EmptyMap, "A", 1), "B", 2)
  /\ sessionBuffers = EmptyMap
  /\ calls = <<>>
  /\ pipe = <<<<>>, <<>>>>
  /\ channel = <<<<>>, <<>>>>
  /\ written = 0
  /\ hist = [sid \in AllIds |-> HistInit]
  /\ mapper = MapperIdle
  /\ cliAvailable = TRUE
  /\ lastSpawn = NoSpawn
  /\ restarts = <<>>
  /\ globalSession = 1
  /\ stdin \in {EmptyMap, MapSet(EmptyMap, 2, [OpenStdin EXCEPT !.present = FALSE])}
  /\ sends = <<>>
  /\ streams = <<>>
  /\ activeRequestCount = 0
  /\ signals = <<>>
  /\ chats = <<>>
  /\ shutdown = NoShutdown

NextSend ==
  \/ \E sid \in {"A", "B", "U1"} : \E text \in Texts : \E outcome \in WriteOutcomes :
       SendMessage(sid, text, outcome)
  \/ \E p \in DOMAIN procs : StdinFlush(p)
  \/ \E p \in DOMAIN procs : StdinDestroy(p)
  \/ \E p \in DOMAIN procs : StdinClose(p)

SpecSend == InitSend /\ [][NextSend]_vars

\* Sends and ends of input on the two sessions.
NextEnd ==
  \/ \E sid \in {"A", "B", "U1"} : EndInput(sid)
  \/ \E sid \in {"A", "B"} : \E outcome \in WriteOutcomes : SendMessage(sid, <<"H", "i">>, outcome)
  \/ \E p \in DOMAIN procs : StdinFlush(p)
  \/ \E p \in DOMAIN procs : StdinDestroy(p)
  \/ \E p \in DOMAIN procs : StdinClose(p)

SpecEnd == InitSend /\ [][NextEnd]_vars

\* The subprocess keeps reading its stdin.
LiveSend == SpecSend /\ \A p \in 1..2 : WF_vars(StdinFlush(p))

\* ---------------------------------------------------------------- GET /api/chat/stream/:sessionId
\* start(): the server is listening, then the global session is spawned; a
\* failed spawn is logged and leaves globalSession null.
StartGlobalSession(uuid) ==
  /\ lastSpawn.n = 0
  /\ globalSession = 0
  /\ LET st == spawnCLISession([procs |-> procs, pipe |-> pipe, channel |-> channel,
                                sessions |-> sessions], cliAvailable, uuid, NoOptions)
     IN  /\ procs' = st.procs
         /\ pipe' = st.pipe
         /\ channel' = st.channel
         /\ sessions' = st.sessions
         /\ lastSpawn' = [n |-> 1, sid |-> uuid, threw |-> st.result.threw,
                          proc |-> st.result.proc]
         /\ globalSession' = st.result.proc
  /\ UNCHANGED <<sessionBuffers, calls, written, hist>>
  /\ UNCHANGED <<mapper, cliAvailable, restarts, stdin, sends>>
  /\ UNCHANGED <<sseVars, signals, reqVars>>

\* What the route handler answers before it touches the response stream.
streamStatus(sid) ==
  IF globalSession = 0 THEN 503
  ELSE IF procs[globalSession].sid # sid THEN 403
  ELSE IF sid \notin DOMAIN sessions THEN 404
  ELSE 200

\* Variant: the events emitted before the subscription are replayed.
OpenStream_Replay(sid) ==
  [sid |-> sid, proc |-> sessions[sid], status |-> 200,
   out |-> <<Comment(":ok")>> \o [k \in DOMAIN channel[sessions[sid]] |-> DataLine(channel[sessions[sid]][k])],
   streamEnded |-> FALSE, heartbeat |-> TRUE, listening |-> TRUE, ends |-> 0,
   cleanups |-> 0, closeSeen |-> FALSE, fresh |-> hist[sid].fed = <<>>]

OpenStream(sid) ==
  [sid |-> sid, proc |-> sessions[sid], status |-> 200, out |-> <<Comment(":ok")>>,
   streamEnded |-> FALSE, heartbeat |-> TRUE, listening |-> TRUE, ends |-> 0,
   cleanups |-> 0, closeSeen |-> FALSE, fresh |-> hist[sid].fed = <<>>]

\* Variant: the request is counted before it is validated.
StreamRequest_CountFirst(sid) ==
  /\ Len(streams) < MaxStreams
  /\ activeRequestCount' = activeRequestCount + 1
  /\ streams' = Append(streams, IF streamStatus(sid) = 200 THEN OpenStream(sid)
                                ELSE NoStream(sid, streamStatus(sid)))
  /\ UNCHANGED <<procs, sessions, sessionBuffers, calls, pipe, channel, written, hist>>
  /\ UNCHANGED <<mapper, cliAvailable, lastSpawn, restarts, globalSession, stdin, sends, signals, reqVars>>

\* The route handler, from the request to the registration of its callbacks.
StreamRequest(sid) ==
  /\ Len(streams) < MaxStreams
  /\ IF streamStatus(sid) # 200
     THEN /\ streams' = Append(streams, NoStream(sid, streamStatus(sid)))
          /\ UNCHANGED activeRequestCount
     ELSE /\ activeRequestCount' = activeRequestCount + 1
          /\ streams' = Append(streams, OpenStream(sid))
  /\ UNCHANGED <<procs, sessions, sessionBuffers, calls, pipe, channel, written, hist>>
  /\ UNCHANGED <<mapper, cliAvailable, lastSpawn, restarts, globalSession, stdin, sends, signals, reqVars>>

Beats(out) == Cardinality({k \in 1..Len(out) : out[k] = Comment(":heartbeat")})

\* The setInterval callback of stream s fires.
Heartbeat(s) ==
  /\ s \in DOMAIN streams
  /\ streams[s].heartbeat
  /\ Beats(streams[s].out) < MaxBeats
  /\ streams' = IF ~streams[s].streamEnded
                THEN [streams EXCEPT ![s] = [@ EXCEPT !.out = Append(@, Comment(":heartbeat"))]]
                ELSE streams
  /\ UNCHANGED activeRequestCount
  /\ UNCHANGED <<procs, sessions, sessionBuffers, calls, pipe, channel, written, hist>>
  /\ UNCHANGED <<mapper, cliAvailable, lastSpawn, restarts, globalSession, stdin, sends, signals, reqVars>>

\* request.raw.on('close'): emitted once, when the client goes away or after
\* the response has been ended.
ClientDisconnect(s) ==
  /\ s \in DOMAIN streams
  /\ streams[s].status = 200
  /\ ~streams[s].closeSeen
  /\ LET st0 == [streams |-> [streams EXCEPT ![s] = [@ EXCEPT !.closeSeen = TRUE]],
                 count |-> activeRequestCount, chats |-> chats]
         st  == IF ~streams[s].streamEnded THEN endStream(st0, s) ELSE st0
     IN  /\ streams' = st.streams
         /\ activeRequestCount' = st.count
  /\ UNCHANGED <<procs, sessions, sessionBuffers, calls, pipe, channel, written, hist>>
  /\ UNCHANGED <<mapper, cliAvailable, lastSpawn, restarts, globalSession, stdin, sends, signals, reqVars>>

\* The server has just started listening; the executable is or is not in PATH.
InitSSE ==
  /\ procs = <<>>
  /\ sessions = EmptyMap
  /\ sessionBuffers = EmptyMap
  /\ calls = <<>>
  /\ pipe = <<>>
  /\ channel = <<>>
  /\ written = 0
  /\ hist = [sid \in AllIds |-> HistInit]
  /\ mapper = MapperIdle
  /\ cliAvailable \in BOOLEAN
  /\ lastSpawn = NoSpawn
  /\ restarts = <<>>
  /\ globalSession = 0
  /\ stdin = EmptyMap
  /\ sends = <<>>
  /\ streams = <<>>
  /\ activeRequestCount = 0
  /\ signals = <<>>
  /\ chats = <<>>
  /\ shutdown = NoShutdown

StreamIds == {"U1", "A"}
\* An assistant text line and a result line.
TextLine == <<"{", "a", "h", "}">>
StreamLines == {TextLine, ResLine}

NextSSE ==
  \/ StartGlobalSession("U1")
  \/ \E sid \in StreamIds : StreamRequest(sid)
  \/ \E s \in 1..MaxStreams : Heartbeat(s)
  \/ \E s \in 1..MaxStreams : ClientDisconnect(s)
  \/ \E p \in DOMAIN procs : \E line \in StreamLines : written < MaxLines /\ ProcWrite(p, line)
  \/ \E p \in DOMAIN procs : pipe[p] # <<>> /\ StdoutData(p, Len(pipe[p]))
  \/ \E p \in DOMAIN procs : \E o \in ExitOutcomes(procs, p) : ProcExit(p, o)
  \/ Len(calls) < MaxStreamCalls /\ TerminateSession("U1")
  \/ \E c \in 1..MaxCalls : TimerFires(c)

SpecSSE == InitSSE /\ [][NextSSE]_vars

\* ---------------------------------------------------------------- POST /api/chat
\* The route handler up to its await of the response promise: validation,
\* counter, registry lookup, send, then the timer and the three listeners.
ChatRequest(sessionId, message, outcome) ==
  /\ Len(chats) < MaxChats
  /\ IF message = <<>> \/ Trim(message) = <<>> \/ sessionId = ""
     THEN /\ chats' = Append(chats, NoChat(sessionId, 400, 0))
          /\ UNCHANGED <<stdin, activeRequestCount>>
     ELSE IF sessionId \notin DOMAIN sessions
     THEN /\ chats' = Append(chats, NoChat(sessionId, 404, 1))
          /\ UNCHANGED <<stdin, activeRequestCount>>
     ELSE LET r == sendMessage(sessions, procs, stdin, sessionId, message, outcome) IN
          /\ stdin' = r.stdin
          /\ IF ~r.ret
             THEN /\ chats' = Append(chats, NoChat(sessionId, 500, 1))
                  /\ UNCHANGED activeRequestCount
             ELSE /\ chats' = Append(chats,
                                [NoChat(sessionId, 0, 0) EXCEPT
                                   !.proc = sessions[sessionId], !.pc = "waiting",
                                   !.onEvent = TRUE, !.onError = TRUE, !.onClose = TRUE,
                                   !.timer = TRUE, !.incs = 1,
                                   !.since = Len(channel[sessions[sessionId]])])
                  /\ activeRequestCount' = activeRequestCount + 1
  /\ UNCHANGED <<procs, sessions, sessionBuffers, calls, pipe, channel, written, hist>>
  /\ UNCHANGED <<mapper, cliAvailable, lastSpawn, restarts, globalSession, sends>>
  /\ UNCHANGED <<streams, signals, shutdown>>

\* request.raw emits 'close': abortHandler runs if it is still attached.
ChatDisconnect(c) ==
  /\ c \in DOMAIN chats
  /\ chats[c].status \in {0, 200, 500} /\ chats[c].incs = 1 /\ chats[c].proc # 0
  /\ ~chats[c].closeSeen
  /\ chats' = [chats EXCEPT ![c] =
                 IF @.onClose
                 THEN [settle(chatCleanup(@), "close", <<"Client disconnected">>)
                         EXCEPT !.closeSeen = TRUE]
                 ELSE [@ EXCEPT !.closeSeen = TRUE]]
  /\ UNCHANGED <<procs, sessions, sessionBuffers, calls, pipe, channel, written, hist>>
  /\ UNCHANGED <<routeVars, sseVars, signals, shutdown>>

\* The 30 s timer fires, if it was not cleared.
ChatTimeout(c) ==
  /\ c \in DOMAIN chats
  /\ chats[c].timer
  /\ chats' = [chats EXCEPT ![c] =
                 settle([chatCleanup(@) EXCEPT !.timer = FALSE], "timeout",
                        <<"CLI response timeout (30s)">>)]
  /\ UNCHANGED <<procs, sessions, sessionBuffers, calls, pipe, channel, written, hist>>
  /\ UNCHANGED <<routeVars, sseVars, signals, shutdown>>

\* Variant: the reply is sent and the counter is left as it is.
ChatReply_NoDecrement(c) ==
  /\ c \in DOMAIN chats
  /\ chats[c].pc = "settled"
  /\ chats' = [chats EXCEPT ![c] =
                 [@ EXCEPT !.pc = "done", !.decs = @ + 1,
                           !.status = IF chats[c].how = "complete" THEN 200 ELSE 500]]
  /\ UNCHANGED activeRequestCount
  /\ UNCHANGED <<procs, sessions, sessionBuffers, calls, pipe, channel, written, hist>>
  /\ UNCHANGED <<routeVars, streams, signals, shutdown>>

\* The handler resumes after the await: the reply is sent, then the finally
\* block decrements the counter.
ChatReply(c) ==
  /\ c \in DOMAIN chats
  /\ chats[c].pc = "settled"
  /\ chats' = [chats EXCEPT ![c] =
                 [@ EXCEPT !.pc = "done", !.decs = @ + 1,
                           !.status = IF chats[c].how = "complete" THEN 200 ELSE 500]]
  /\ activeRequestCount' = activeRequestCount - 1
  /\ UNCHANGED <<procs, sessions, sessionBuffers, calls, pipe, channel, written, hist>>
  /\ UNCHANGED <<routeVars, streams, signals, shutdown>>

\* Requests of the blocking route: a valid one, a blank message, an unknown id.
ChatInputs ==
  {[sid |-> "U1", text |-> <<"H", "i">>],
   [sid |-> "U1", text |-> <<SP>>],
   [sid |-> "B",  text |-> <<"H", "i">>]}

\* Blocking requests and a stream on the global session.
NextChat ==
  \/ StartGlobalSession("U1")
  \/ Len(streams) < MaxChatStreams /\ StreamRequest("U1")
  \/ \E s \in 1..MaxChatStreams : ClientDisconnect(s)
  \/ \E in \in ChatInputs : \E outcome \in {"ok", "throw"} :
       ChatRequest(in.sid, in.text, outcome)
  \/ \E c \in 1..MaxChats : ChatDisconnect(c)
  \/ \E c \in 1..MaxChats : ChatTimeout(c)
  \/ \E c \in 1..MaxChats : ChatReply(c)
  \/ \E p \in DOMAIN procs : \E line \in StreamLines : written < MaxLines /\ ProcWrite(p, line)
  \/ \E p \in DOMAIN procs : pipe[p] # <<>> /\ StdoutData(p, Len(pipe[p]))
  \/ \E p \in DOMAIN procs : \E err \in {e \in ProcessErrors : e.code = "EPIPE"} : ProcError(p, err)
  \/ \E p \in DOMAIN procs : \E o \in ExitOutcomes(procs, p) : ProcExit(p, o)

SpecChat == InitSSE /\ [][NextChat]_vars

\* ---------------------------------------------------------------- shutdown
\* Variant: the loop waits out the bound whatever the counter is.
shutdownWaits_IgnoreCount(count, elapsed) == elapsed < MaxWaitPolls

\* while (activeRequestCount > 0 && Date.now() - startTime < maxWaitMs), the
\* elapsed time counted in sleeps of 100 ms.
shutdownWaits(count, elapsed) == count > 0 /\ elapsed < MaxWaitPolls

\* The loop has been left: terminateSession(globalSession.sessionId) up to its
\* await if there is a global session, cleanupProcessFiles and server.close()
\* otherwise.
ShutdownProceed(elapsed) ==
  IF globalSession # 0
  THEN /\ Len(calls) < MaxCalls
       /\ LET st == terminateStart([procs |-> procs, sessions |-> sessions,
                                    sessionBuffers |-> sessionBuffers, hist |-> hist,
                                    channel |-> channel, calls |-> calls],
                                   procs[globalSession].sid)
          IN  /\ procs' = st.procs
              /\ sessionBuffers' = st.sessionBuffers
              /\ hist' = st.hist
              /\ channel' = st.channel
              /\ calls' = st.calls
       /\ shutdown' = [pc |-> "terminating", polls |-> elapsed, call |-> Len(calls) + 1,
                       seen |-> activeRequestCount, proc |-> globalSession]
  ELSE /\ shutdown' = [pc |-> "closing", polls |-> elapsed, call |-> 0,
                       seen |-> activeRequestCount, proc |-> 0]
       /\ UNCHANGED <<procs, sessionBuffers, hist, channel, calls>>

\* SIGTERM or SIGINT: shutdown() runs up to its first await.
Shutdown ==
  /\ shutdown.pc = "idle"
  /\ IF shutdownWaits(activeRequestCount, 0)
     THEN /\ shutdown' = [shutdown EXCEPT !.pc = "polling"]
          /\ UNCHANGED <<procs, sessionBuffers, hist, channel, calls>>
     ELSE ShutdownProceed(0)
  /\ UNCHANGED <<sessions, pipe, written, routeVars, sseVars, signals, chats>>

\* A sleep of the loop ends, elapsed - shutdown.polls sleeps' worth of time
\* after the previous one, and the loop condition is evaluated again.
ShutdownPoll(elapsed) ==
  /\ shutdown.pc = "polling"
  /\ elapsed > shutdown.polls
  /\ IF shutdownWaits(activeRequestCount, elapsed)
     THEN /\ shutdown' = [shutdown EXCEPT !.polls = elapsed]
          /\ UNCHANGED <<procs, sessionBuffers, hist, channel, calls>>
     ELSE ShutdownProceed(elapsed)
  /\ UNCHANGED <<sessions, pipe, written, routeVars, sseVars, signals, chats>>

\* terminateSession has returned: cleanupProcessFiles(), then server.close().
ShutdownResume ==
  /\ shutdown.pc = "terminating"
  /\ calls[shutdown.call].pc = "returned"
  /\ shutdown' = [shutdown EXCEPT !.pc = "closing"]
  /\ UNCHANGED <<procs, sessions, sessionBuffers, calls, pipe, channel, written, hist>>
  /\ UNCHANGED <<routeVars, sseVars, signals, chats>>

\* Requests whose response has not been ended; server.close() waits for them.
InFlight ==
  \/ \E r \in DOMAIN restarts : restarts[r].pc # "done"
  \/ \E s \in DOMAIN streams : streams[s].status = 200 /\ streams[s].ends = 0
  \/ \E c \in DOMAIN chats : chats[c].pc # "done"

\* server.close() has resolved: process.exit(0).
ShutdownExit ==
  /\ shutdown.pc = "closing"
  /\ ~InFlight
  /\ shutdown' = [shutdown EXCEPT !.pc = "done"]
  /\ UNCHANGED <<procs, sessions, sessionBuffers, calls, pipe, channel, written, hist>>
  /\ UNCHANGED <<routeVars, sseVars, signals, chats>>

\* The server accepts requests until server.close() is called, and nothing
\* runs after process.exit(0).
Accepting == shutdown.pc \in {"idle", "polling", "terminating"}
Running == shutdown.pc # "done"

\* A handler whose awaited terminateSession call has returned resumes as a
\* microtask, before any signal, timer, subprocess or request callback runs.
Resuming ==
  \/ \E r \in DOMAIN restarts :
       restarts[r].pc = "terminating" /\ calls[restarts[r].call].pc = "returned"
  \/ shutdown.pc = "terminating" /\ calls[shutdown.call].pc = "returned"

\* The started server with its global session: streams and restart requests
\* arrive, a signal starts the shutdown.
NextShutdown ==
  \/ Accepting /\ ~Resuming /\ Len(streams) < MaxChatStreams
       /\ \E sid \in {"U1", "U2"} : StreamRequest(sid)
  \/ Running /\ ~Resuming /\ \E s \in 1..MaxChatStreams : ClientDisconnect(s)
  \/ Accepting /\ ~Resuming /\ \E sid \in {"U1", "U2"} : RestartRequest(sid, JArr(<<>>))
  \/ Running /\ \E r \in 1..MaxRestarts : RestartResume(r, "U2")
  \/ Running /\ ~Resuming /\ \E c \in 1..MaxCalls : TimerFires(c)
  \/ Running /\ ~Resuming /\ \E p \in DOMAIN procs : \E o \in ExitOutcomes(procs, p) : ProcExit(p, o)
  \/ ~Resuming /\ Shutdown
  \/ ~Resuming /\ \E elapsed \in 1..MaxWaitPolls : ShutdownPoll(elapsed)
  \/ ShutdownResume
  \/ ShutdownExit

SpecShutdown == InitRestart /\ [][NextShutdown]_vars

\* A stream on the global session while the subprocess writes a response to
\* stdout and diagnostics to stderr.
NextStderr ==
  \/ StartGlobalSession("U1")
  \/ StreamRequest("U1")
  \/ \E s \in 1..MaxStreams : ClientDisconnect(s)
  \/ \E p \in DOMAIN procs : \E line \in StreamLines : written < MaxLines /\ ProcWrite(p, line)
  \/ \E p \in DOMAIN procs : pipe[p] # <<>> /\ StdoutData(p, Len(pipe[p]))
  \/ \E p \in DOMAIN procs : \E chunk \in StderrChunks : StderrData(p, chunk)

SpecStderr == InitSSE /\ [][NextStderr]_vars

\* Sends to session A while it is being terminated.
NextSendTerm ==
  \/ \E outcome \in WriteOutcomes : SendMessage("A", <<"H", "i">>, outcome)
  \/ TerminateSession("A")
  \/ \E c \in 1..MaxCalls : TimerFires(c)
  \/ \E p \in DOMAIN procs : \E o \in ExitOutcomes(procs, p) : ProcExit(p, o)
  \/ \E p \in DOMAIN procs : StdinFlush(p)
  \/ \E p \in DOMAIN procs : StdinDestroy(p)
  \/ \E p \in DOMAIN procs : StdinClose(p)

SpecSendTerm == InitTerm /\ [][NextSendTerm]_vars

\* ================================================================ claims
SigCount(p, sig) == Cardinality({i \in 1..Len(procs[p].sigs) : procs[p].sigs[i] = sig})

Returned(c) == c \in DOMAIN calls /\ calls[c].pc = "returned" /\ calls[c].ret

\* The chunked run of session sid agrees with one parseCLIOutput call on all its bytes.
Reassembled(sid) ==
  LET whole == parseCLIOutput(EmptyMap, sid, hist[sid].fed) IN
  /\ whole.events = hist[sid].out
  /\ getSessionBuffer(whole.buffers, sid) = getSessionBuffer(sessionBuffers, sid)

CompleteLines(text) == SubSeq(Split(text), 1, Len(Split(text)) - 1)

Mappable(line) ==
  JSONParse(line).ok /\ mapCLIEventToSSE(JSONParse(line).value, "any") # Null

RECURSIVE EventsOfLines(_)
EventsOfLines(lines) ==
  IF lines = <<>> THEN <<>>
  ELSE (IF Mappable(Head(lines))
        THEN <<mapCLIEventToSSE(JSONParse(Head(lines)).value, "any")>>
        ELSE <<>>) \o EventsOfLines(Tail(lines))

\* C1: line reassembly.  For every session whose chunks since the buffer was
\* empty were all cut at character boundaries, the events returned by the
\* successive parseCLIOutput calls, concatenated, and the buffer left behind
\* equal those of a single parseCLIOutput call on the concatenated bytes.
C1_LineReassembly ==
  \A sid \in SessionIds : hist[sid].clean => Reassembled(sid)

\* A message line was fed in two or more chunks cut at character boundaries
\* and came out as one event.
C1_Witness ==
  \E sid \in SessionIds :
    /\ hist[sid].clean
    /\ hist[sid].ncalls >= 2
    /\ hist[sid].fed = MsgLine \o <<LF>>
    /\ Len(hist[sid].out) = 1

\* C2: reassembly when a chunk boundary falls inside a multi-byte character:
\* the chunked run yields the same events and buffer as one call on all bytes.
C2_MultiByteReassembly ==
  \A sid \in SessionIds : ~hist[sid].clean => Reassembled(sid)

\* C3: two-phase termination.  A terminateSession call whose subprocess is
\* still alive when the graceful wait ends by timeout has sent SIGKILL to it
\* exactly once, and the session is absent from the registry when it returns.
C3_ForcedKillOnce ==
  \A c \in DOMAIN calls :
    (Returned(c) /\ calls[c].how = "timeout" /\ calls[c].aliveAtEnd)
      => (SigCount(calls[c].proc, "SIGKILL") = 1 /\ calls[c].absentAfter)

\* C4: terminateSession on a registered session always completes: a waiting
\* call eventually returns true with the session absent from the registry.
C4_TerminateCompletes ==
  \A c \in 1..MaxCalls :
    (c \in DOMAIN calls /\ calls[c].pc = "waiting")
      ~> (Returned(c) /\ calls[c].absentAfter)

\* One call ended by the subprocess exiting, another by the timer with the
\* subprocess still alive.
C4_Witness ==
  \E c, d \in DOMAIN calls :
    /\ Returned(c) /\ calls[c].how = "exit"
    /\ Returned(d) /\ calls[d].how = "timeout" /\ calls[d].aliveAtEnd

\* C5: terminateSession on an id that is not registered returns false and
\* changes nothing: no signal, no buffer cleared, registry unchanged.
C5_UnknownTerminate ==
  [][\A sid \in SessionIds :
       (/\ Len(calls') = Len(calls) + 1
        /\ calls'[Len(calls')].sid = sid
        /\ sid \notin DOMAIN sessions)
       => (/\ calls'[Len(calls')].pc = "returned"
           /\ ~calls'[Len(calls')].ret
           /\ UNCHANGED <<procs, sessions, sessionBuffers, pipe, channel>>)]_vars

\* A call returned false while its own id had a line buffer and a subprocess
\* was alive.
C5_Witness ==
  \E c \in DOMAIN calls :
    /\ calls[c].pc = "returned" /\ ~calls[c].ret
    /\ calls[c].sid \in calls[c].seenBufs
    /\ calls[c].seenLive # {}

\* C6: at most one subprocess that has not exited is associated with any
\* session identifier.
C6_OneLiveSubprocessPerId ==
  \A sid \in SessionIds :
    Cardinality({p \in DOMAIN procs : procs[p].sid = sid /\ procs[p].alive}) <= 1

\* C7 as stated: every registered session id has a subprocess that is alive.
C7_RegisteredAlive ==
  \A sid \in DOMAIN sessions : procs[sessions[sid]].alive

\* C7 amended: every registered session id has a subprocess on which no
\* terminateSession call has completed (the subprocess may have exited).
C7_RegisteredNotTerminated ==
  \A sid \in DOMAIN sessions :
    ~\E c \in DOMAIN calls : Returned(c) /\ calls[c].proc = sessions[sid]

\* A registered session whose subprocess has exited, beside a completed
\* terminateSession call.
C7_Witness ==
  /\ \E sid \in DOMAIN sessions : ~procs[sessions[sid]].alive
  /\ \E c \in DOMAIN calls : Returned(c)

\* C8: session isolation.  The buffer and the returned events of every
\* session equal those of a parser that was fed this session's calls alone.
C8_SessionIsolation ==
  \A sid \in SessionIds :
    /\ getSessionBuffer(sessionBuffers, sid) = getSessionBuffer(hist[sid].alone.buffers, sid)
    /\ hist[sid].out = hist[sid].alone.events

\* One session's line, split over chunks, came out as an event while the
\* other session holds a partial line.
C8_Witness ==
  \E a, b \in SessionIds :
    /\ a # b
    /\ hist[a].ncalls >= 2
    /\ Len(hist[a].out) = 1
    /\ hist[a].fed \in {MsgLine \o <<LF>>, ResLine \o <<LF>>}
    /\ getSessionBuffer(sessionBuffers, b) # <<>>

\* C9: invalid-line tolerance.  No parseCLIOutput call raised, and the calls
\* returned one event for each valid mappable complete line, whatever invalid
\* lines stand before or between them.
C9_InvalidLineTolerance ==
  \A sid \in SessionIds :
    /\ ~hist[sid].threw
    /\ Len(hist[sid].out) =
         Cardinality({i \in 1..Len(CompleteLines(hist[sid].seen)) :
                        Mappable(CompleteLines(hist[sid].seen)[i])})

\* One chunk held an invalid line followed by a valid line and returned
\* exactly the event of the valid line.
C9_Witness ==
  \E sid \in SessionIds :
    /\ hist[sid].ncalls = 1
    /\ hist[sid].fed = BadLine \o <<LF>> \o ResLine \o <<LF>>
    /\ Len(hist[sid].out) = 1
    /\ hist[sid].out[1].type = "complete"

\* C10: ordering.  The events emitted on a session's channel are the events
\* of the complete lines of its stdout text, in the order of the lines.
C10_Ordering ==
  \A p \in DOMAIN procs :
    channel[p] = EventsOfLines(CompleteLines(hist[procs[p].sid].seen))

\* A message and then a result were emitted, in that order, from two or more
\* chunks.
C10_Witness ==
  \E p \in DOMAIN procs :
    /\ hist[procs[p].sid].ncalls >= 2
    /\ Len(channel[p]) = 2
    /\ channel[p][1].type = "message"
    /\ channel[p][2].type = "complete"

\* The tags of the Protocol Event union.
EventTags == {"message", "tool_use", "tool_result", "progress", "artifact", "complete", "error"}

\* C11: every event the parser loop returns for a parsed line has one of the
\* seven tags and the required fields of that tag with the right types, and a
\* candidate of the mappers that fails the structural validation is not
\* returned.
C11_ValidatedEvents ==
  mapper.phase = "mapped" =>
    /\ \A i \in 1..Len(mapper.out) :
         mapper.out[i].type \in EventTags /\ SSEEventSchemaOk(mapper.out[i])
    /\ LET candidate == mapCLIEventToSSE_NoValidation(mapper.in, "A") IN
       (candidate # Null /\ ~SSEEventSchemaOk(candidate)) => mapper.out = <<>>

\* A tool_result line whose cached flag is not a boolean was mapped to a
\* candidate and dropped.
C11_Witness ==
  /\ mapper.phase = "mapped"
  /\ TypeOf(mapper.in) = "tool_result"
  /\ Get(mapper.in, "is_cached") = JStr(<<"y">>)
  /\ mapCLIEventToSSE_NoValidation(mapper.in, "A") # Null
  /\ mapper.out = <<>>

\* The blocks of a content array that are tool_use blocks.
ToolUseAt(content) == {i \in 1..Len(content) : IsToolUseBlock(content[i])}

\* An assistant/message line with a content array holding a tool_use block,
\* whose name is a string where it has one, beside text and thinking blocks.
ToolUseAmongText(v) ==
  /\ TypeOf(v) \in {"assistant", "message"}
  /\ IsArray(Get(Get(v, "message"), "content"))
  /\ LET content == v.message.content.arr IN
     /\ ToolUseAt(content) # {}
     /\ \A i \in 1..Len(content) :
          content[i] \in {TextBlock, ThinkBlock, NamedTool, AliasTool, BareTool}

C13_SpawnUnavailable ==
  [][(lastSpawn'.n # lastSpawn.n /\ ~cliAvailable)
       => (/\ lastSpawn'.threw = "CLI_NOT_FOUND"
           /\ UNCHANGED <<procs, sessions, pipe, channel>>)]_vars

\* A spawn call by the restart handler threw CLI_NOT_FOUND after the old
\* session had been terminated.
C13_Witness ==
  /\ lastSpawn.threw = "CLI_NOT_FOUND"
  /\ \E r \in DOMAIN restarts : restarts[r].pc = "done" /\ restarts[r].status = 500
  /\ sessions = EmptyMap

AllowListFlags == {"--allowedTools", "--allowed-tools"}

\* args holds flag followed by value.
HasFlag(args, flag, value) ==
  \E i \in 1..(Len(args) - 1) : args[i] = flag /\ args[i + 1] = value

\* args holds an allow-list flag followed by exactly the tools.
CarriesAllowList(args, tools) ==
  \E i \in 1..Len(args) :
    /\ args[i] \in AllowListFlags
    /\ Len(args) = i + Len(tools)
    /\ \A k \in 1..Len(tools) : args[i + k] = tools[k]

\* C14: a restart that succeeded with a non-empty sanitized allow-list has
\* launched the new subprocess with --resume <prior session id> and with a
\* tool allow-list flag carrying exactly the sanitized tools.
C14_RestartAllowList ==
  \A r \in DOMAIN restarts :
    (restarts[r].pc = "done" /\ restarts[r].status = 200 /\ restarts[r].tools # <<>>)
      => (/\ HasFlag(procs[restarts[r].proc].args, "--resume", restarts[r].sid)
          /\ CarriesAllowList(procs[restarts[r].proc].args, restarts[r].tools))

\* The stream can be written to: present, not destroyed, not closed.
Writable(s) == s.present /\ ~s.destroyed /\ ~s.closed

\* C15: sendMessage never raises and reports every fault as false: false and
\* nothing written for an unregistered id and for a stdin that is missing,
\* destroyed or closed; false when the write throws; in every other case true
\* after exactly one write.
C15_SendFaults ==
  [][Len(sends') = Len(sends) + 1 =>
       LET rec == sends'[Len(sends')]
           sid == rec.sid
           p   == sessions[sid]
       IN  /\ ~rec.raised
           /\ sid \notin DOMAIN sessions => (~rec.ret /\ UNCHANGED stdin)
           /\ (sid \in DOMAIN sessions /\ ~Writable(StdinOf(p))) => (~rec.ret /\ UNCHANGED stdin)
           /\ (sid \in DOMAIN sessions /\ Writable(StdinOf(p)) /\ rec.outcome = "throw")
                => ~rec.ret
           /\ (sid \in DOMAIN sessions /\ Writable(StdinOf(p)) /\ rec.outcome # "throw")
                => (/\ rec.ret
                    /\ Len(MapGet(stdin', p, OpenStdin).writes) = Len(StdinOf(p).writes) + 1)
  ]_vars

\* One call returned false because the write threw, another because the
\* stdin of its registered session was destroyed.
C15_Witness ==
  \E j, k \in DOMAIN sends :
    /\ sends[j].outcome = "throw" /\ ~sends[j].ret
    /\ sends[k].proc # 0 /\ sends[k].outcome = "none" /\ ~sends[k].ret
    /\ StdinOf(sends[k].proc).destroyed

\* The text of a JSON string literal's inside, as JSON.parse reads it.
RECURSIVE Unescape(_)
Unescape(chars) ==
  IF chars = <<>> THEN [ok |-> TRUE, text |-> <<>>]
  ELSE IF Head(chars) = BSLASH
  THEN IF Len(chars) < 2 \/ chars[2] \notin {QUOTE, BSLASH, "n"}
       THEN [ok |-> FALSE, text |-> <<>>]
       ELSE LET rest == Unescape(SubSeq(chars, 3, Len(chars))) IN
            [ok |-> rest.ok,
             text |-> <<(IF chars[2] = "n" THEN LF ELSE chars[2])>> \o rest.text]
  ELSE IF Head(chars) \in {QUOTE, LF}
  THEN [ok |-> FALSE, text |-> <<>>]
  ELSE LET rest == Unescape(Tail(chars)) IN
       [ok |-> rest.ok, text |-> <<Head(chars)>> \o rest.text]

\* JSON.parse of a line of the stdin protocol.
ParseUserLine(line) ==
  LET n == Len(line) IN
  IF /\ n >= 4
     /\ line[1] = ENVELOPE_OPEN /\ line[2] = QUOTE
     /\ line[n - 1] = QUOTE /\ line[n] = ENVELOPE_CLOSE
     /\ Unescape(SubSeq(line, 3, n - 2)).ok
  THEN [ok |-> TRUE,
        value |-> [type |-> "user",
                   message |-> [role |-> JStr(<<"user">>),
                                content |-> JArr(<<[type |-> "text",
                                                     text |-> JStr(Unescape(SubSeq(line, 3, n - 2)).text)]>>)]]]
  ELSE [ok |-> FALSE, value |-> [type |-> "SyntaxError"]]

UserEnvelope(text) ==
  [type |-> "user",
   message |-> [role |-> JStr(<<"user">>),
                content |-> JArr(<<[type |-> "text", text |-> JStr(text)]>>)]]

\* C16: a send to a writable session hands the stream exactly one chunk, the
\* payload followed by one newline.  In streaming mode the payload is one
\* line that parses to the user envelope holding the text unchanged; in
\* per-message mode the payload is the text itself.
C16_PayloadFormat ==
  [][Len(sends') = Len(sends) + 1 =>
       LET rec == sends'[Len(sends')]
           sid == rec.sid
           p   == sessions[sid]
           payload == SubSeq(rec.chunk, 1, Len(rec.chunk) - 1)
       IN  (sid \in DOMAIN sessions /\ Writable(StdinOf(p)) /\ rec.outcome # "throw")
             => /\ MapGet(stdin', p, OpenStdin).writes = Append(StdinOf(p).writes, rec.chunk)
                /\ rec.chunk = payload \o <<LF>>
                /\ IF procs[p].mode = "streaming"
                   THEN /\ \A i \in 1..Len(payload) : payload[i] # LF
                        /\ ParseUserLine(payload).ok
                        /\ ParseUserLine(payload).value = UserEnvelope(rec.text)
                   ELSE payload = rec.text
  ]_vars

\* A text with a quote and a backslash went to the streaming session and a
\* text with a line break to the per-message session.
C16_Witness ==
  \E j, k \in DOMAIN sends :
    /\ sends[j].ret /\ sends[j].proc = 1 /\ sends[j].text = <<QUOTE, BSLASH>>
    /\ sends[k].ret /\ sends[k].proc = 2 /\ sends[k].text = <<"a", LF, "b">>

Backpressured(k) == k \in DOMAIN sends /\ sends[k].outcome = "backpressure"

\* The chunk of call k has reached the subprocess.
Flushed(k) ==
  LET s == StdinOf(sends[k].proc) IN
  Len(s.received) >= sends[k].at /\ s.received[sends[k].at] = sends[k].chunk

Unmatched(sid) ==
  \/ globalSession = 0
  \/ procs[globalSession].sid # sid
  \/ sid \notin DOMAIN sessions

Untouched(s) ==
  /\ s.out = <<>>
  /\ ~s.heartbeat
  /\ ~s.listening
  /\ s.proc = 0
  /\ s.cleanups = 0

\* C18: a stream request whose session id is unmatched is answered with an
\* error status and opens no stream: nothing is written to its response, no
\* heartbeat timer is started for it, no listener is subscribed, the
\* active-request counter and the other streams are left as they were, and
\* nothing is ever written to it later.
C18_RejectedStreamRequest ==
  /\ [][(Len(streams') = Len(streams) + 1 /\ Unmatched(streams'[Len(streams')].sid))
          => /\ streams'[Len(streams')].status \in {403, 404, 503}
             /\ Untouched(streams'[Len(streams')])
             /\ SubSeq(streams', 1, Len(streams)) = streams
             /\ activeRequestCount' = activeRequestCount]_vars
  /\ [](\A s \in DOMAIN streams : streams[s].status # 200 => Untouched(streams[s]))

\* Two requests were rejected, one for a foreign id and one for the id of the
\* global session after its registry entry was deleted, while a stream was open
\* or not.
C18_Witness ==
  \E s, t \in DOMAIN streams :
    /\ streams[s].status = 403
    /\ streams[t].status = 404
    /\ Untouched(streams[s])
    /\ Untouched(streams[t])

\* ---------------------------------------------------------------- C19
\* The events of the data chunks of a response, in the order written.
RECURSIVE DataEvents(_)
DataEvents(out) ==
  IF out = <<>> THEN <<>>
  ELSE IF Head(out).line = "data" THEN <<Head(out).json>> \o DataEvents(Tail(out))
  ELSE DataEvents(Tail(out))

\* The events up to and including the first terminal one.
RECURSIVE UpToTerminal(_)
UpToTerminal(events) ==
  IF events = <<>> THEN <<>>
  ELSE IF Head(events).type \in TerminalTypes THEN <<Head(events)>>
  ELSE <<Head(events)>> \o UpToTerminal(Tail(events))

HasTerminal(events) == \E k \in 1..Len(events) : events[k].type \in TerminalTypes

\* The events appended to the channel of session object p by a step.
Emitted(p) ==
  IF /\ Len(channel'[p]) > Len(channel[p])
     /\ SubSeq(channel'[p], 1, Len(channel[p])) = channel[p]
  THEN SubSeq(channel'[p], Len(channel[p]) + 1, Len(channel'[p]))
  ELSE <<>>

IsOpen(s) == s.status = 200 /\ s.ends = 0

TextThenResult == TextLine \o <<LF>> \o ResLine \o <<LF>>

\* C19: in every step that emits events on a session channel, each stream open
\* on that channel gets exactly one data chunk per event, in emission order, up
\* to and including the first complete or error event, and the response is
\* ended in that same step exactly when there was one; and a stream subscribed
\* before any output, whose client stays connected while the subprocess writes
\* an assistant text line and then a result line, has received the message
\* event, then the complete event, and has been ended.
C19_EventsWrittenInOrder ==
  /\ [][\A p \in DOMAIN procs : \A s \in DOMAIN streams :
          (Emitted(p) # <<>> /\ IsOpen(streams[s]) /\ streams[s].proc = p)
            => /\ DataEvents(streams'[s].out)
                    = DataEvents(streams[s].out) \o UpToTerminal(Emitted(p))
               /\ Len(streams'[s].out) = Len(streams[s].out) + Len(UpToTerminal(Emitted(p)))
               /\ SubSeq(streams'[s].out, 1, Len(streams[s].out)) = streams[s].out
               /\ streams'[s].ends = (IF HasTerminal(Emitted(p)) THEN 1 ELSE 0)]_vars
  /\ [](\A s \in DOMAIN streams :
          (/\ streams[s].status = 200
           /\ streams[s].fresh
           /\ ~streams[s].closeSeen
           /\ calls = <<>>
           /\ procs[streams[s].proc].alive
           /\ hist[streams[s].sid].fed = TextThenResult)
            => /\ Len(DataEvents(streams[s].out)) = 2
               /\ DataEvents(streams[s].out)[1].type = "message"
               /\ DataEvents(streams[s].out)[1].content = JStr(<<"h">>)
               /\ DataEvents(streams[s].out)[2].type = "complete"
               /\ streams[s].out[Len(streams[s].out)].line = "data"
               /\ streams[s].ends = 1)

\* A connected stream that was sent a heartbeat, the message event and the
\* complete event, and was ended by the latter.
C19_Witness ==
  \E s \in DOMAIN streams :
    /\ streams[s].status = 200
    /\ streams[s].fresh
    /\ ~streams[s].closeSeen
    /\ hist[streams[s].sid].fed = TextThenResult
    /\ Len(streams[s].out) = 4
    /\ Beats(streams[s].out) = 1
    /\ Len(DataEvents(streams[s].out)) = 2
    /\ DataEvents(streams[s].out)[2].type = "complete"
    /\ streams[s].ends = 1

\* ---------------------------------------------------------------- C20
TerminalWritten(s) == HasTerminal(DataEvents(s.out))

OpenCount == Cardinality({s \in DOMAIN streams : streams[s].status = 200 /\ streams[s].cleanups = 0})

\* C20: a stream that was opened is torn down exactly once, as soon as a
\* terminal event has been written to it or its client has disconnected,
\* whichever comes first and also when both happen: its heartbeat timer is
\* stopped, its listener is unsubscribed, its response is ended and the
\* active-request counter, which counts the streams not yet torn down, is
\* decremented once; nothing is written to a stream after its teardown.
C20_TeardownOnce ==
  /\ [](\A s \in DOMAIN streams :
          streams[s].status = 200
            => /\ streams[s].cleanups
                    = (IF TerminalWritten(streams[s]) \/ streams[s].closeSeen THEN 1 ELSE 0)
               /\ streams[s].ends = streams[s].cleanups
               /\ streams[s].heartbeat = (streams[s].cleanups = 0)
               /\ streams[s].listening = (streams[s].cleanups = 0))
  /\ [](activeRequestCount = OpenCount)
  /\ [][\A s \in DOMAIN streams :
          streams[s].cleanups > 0 => streams'[s].out = streams[s].out]_vars

\* One stream was ended by a terminal event and its client disconnected
\* afterwards; another was ended by the disconnect of its client, and events
\* were emitted on its channel afterwards.
C20_Witness ==
  \E s, t \in DOMAIN streams :
    /\ TerminalWritten(streams[s])
    /\ streams[s].closeSeen
    /\ streams[s].cleanups = 1
    /\ ~TerminalWritten(streams[t])
    /\ streams[t].closeSeen
    /\ streams[t].cleanups = 1
    /\ Len(channel[streams[t].proc]) > Len(DataEvents(streams[t].out))
    /\ activeRequestCount = 0
  /\ signals = <<>>

\* ---------------------------------------------------------------- C21
\* The life of the streams of one session: the subprocess writes at most
\* MaxWrites lines, exits or is terminated; clients may disconnect.
NextStreamLife ==
  \/ StartGlobalSession("U1")
  \/ StreamRequest("U1")
  \/ \E s \in 1..MaxStreams : ClientDisconnect(s)
  \/ \E p \in DOMAIN procs : \E line \in StreamLines : written < MaxWrites /\ ProcWrite(p, line)
  \/ \E p \in DOMAIN procs : pipe[p] # <<>> /\ StdoutData(p, Len(pipe[p]))
  \/ \E p \in DOMAIN procs : \E o \in ExitOutcomes(procs, p) : ProcExit(p, o)
  \/ Len(calls) < MaxStreamCalls /\ TerminateSession("U1")
  \/ \E c \in 1..MaxCalls : TimerFires(c)

SpecStreamLife == InitSSE /\ [][NextStreamLife]_vars

\* The event loop runs what is pending: the stdout pipes are drained again and
\* again (only the 'data' handler drains them), the graceful-wait timers fire,
\* and the subprocess ends.
LiveStreamLife ==
  /\ SpecStreamLife
  /\ []<>(\A p \in DOMAIN procs : pipe[p] = <<>>)
  /\ WF_vars(\E p \in DOMAIN procs : \E o \in ExitOutcomes(procs, p) : ProcExit(p, o))
  /\ WF_vars(\E c \in 1..MaxCalls : TimerFires(c))

\* C21: every stream that was opened and whose client stays connected is
\* eventually sent a complete event or an error event.
C21_StreamGetsTerminal ==
  \A s \in 1..MaxStreams :
    (s \in DOMAIN streams /\ streams[s].status = 200)
      ~> (s \in DOMAIN streams /\ (TerminalWritten(streams[s]) \/ streams[s].closeSeen))

\* ---------------------------------------------------------------- C22
\* What a step appends to the log of the 'error' and 'exit' handlers.
NewSignals == SubSeq(signals', Len(signals) + 1, Len(signals'))

ExpectedCode(err) ==
  CASE err.code = "ENOENT" -> "CLI_NOT_FOUND"
    [] err.code = "EACCES" -> "CLI_PERMISSION_DENIED"
    [] OTHER -> "CLI_ERROR"

IsErrorSignal(g, p, code) ==
  /\ g.proc = p
  /\ g.name = "cli-event"
  /\ g.arg.type = "error"
  /\ g.arg.error_code = code

AbnormalExit(arg) == arg.code # Null /\ arg.code # JNum(0)

\* C22: the log of process-level emits only grows; a step that emits
\* cli-error for a subprocess emits, just before it and in the same step, one
\* error event on the session channel whose code is CLI_NOT_FOUND for ENOENT,
\* CLI_PERMISSION_DENIED for EACCES and CLI_ERROR otherwise and whose message
\* is the error's; every step in which a subprocess exits emits cli-exit, with
\* one CLI_EXIT_ERROR event just before it when the exit code is neither null
\* nor 0 and with no event otherwise; nothing else is emitted by these steps.
C22_FaultEvents ==
  [][/\ Len(signals') >= Len(signals)
     /\ SubSeq(signals', 1, Len(signals)) = signals
     /\ \A p \in DOMAIN procs :
          (procs[p].alive /\ ~procs'[p].alive)
            => (NewSignals # <<>> /\ NewSignals[Len(NewSignals)].proc = p
                                  /\ NewSignals[Len(NewSignals)].name = "cli-exit")
     /\ NewSignals # <<>> =>
          LET last == NewSignals[Len(NewSignals)]
              p    == last.proc
          IN  /\ last.name \in {"cli-error", "cli-exit"}
              /\ last.name = "cli-error" =>
                   /\ Len(NewSignals) = 2
                   /\ IsErrorSignal(NewSignals[1], p, ExpectedCode(last.arg))
                   /\ NewSignals[1].arg.error_message = last.arg.message
                   /\ channel'[p] = Append(channel[p], NewSignals[1].arg)
              /\ (last.name = "cli-exit" /\ AbnormalExit(last.arg)) =>
                   /\ Len(NewSignals) = 2
                   /\ IsErrorSignal(NewSignals[1], p, "CLI_EXIT_ERROR")
                   /\ channel'[p] = Append(channel[p], NewSignals[1].arg)
              /\ (last.name = "cli-exit" /\ ~AbnormalExit(last.arg)) =>
                   /\ Len(NewSignals) = 1
                   /\ channel'[p] = channel[p]
              /\ last.name = "cli-exit" => (procs[p].alive /\ ~procs'[p].alive)]_vars

\* A subprocess reported ENOENT and later exited with code 1: the log holds
\* the error event, cli-error, the exit error event and cli-exit.
C22_Witness ==
  /\ Len(signals) = 4
  /\ IsErrorSignal(signals[1], 1, "CLI_NOT_FOUND")
  /\ signals[2].name = "cli-error"
  /\ IsErrorSignal(signals[3], 1, "CLI_EXIT_ERROR")
  /\ signals[4].name = "cli-exit"
  /\ signals[4].arg.code = JNum(1)
  /\ Len(channel[1]) = 2

\* ---------------------------------------------------------------- C23
\* The text of a stderr chunk without its leading and trailing white space.
TrimmedText(chunk) ==
  CASE chunk = <<SP, LF>> -> <<>>
    [] chunk = <<SP, "w", LF>> -> <<"w">>
    [] chunk = <<"e", LEAD, CONT>> -> <<"e", EACUTE>>

\* C23: handling a stderr chunk appends to the session channel one error
\* event with code CLI_STDERR and the trimmed text as message when that text
\* is not empty, and nothing when it is; it sends no signal to and does not
\* end any subprocess, leaves the registry, the line buffers, the other
\* channels and the pending terminateSession calls as they were.
C23_StderrEvent ==
  [][\A p \in DOMAIN procs : \A chunk \in StderrChunks :
       StderrData(p, chunk)
         => /\ channel'[p] =
                 (IF TrimmedText(chunk) # <<>>
                  THEN Append(channel[p], [type |-> "error",
                                           error_message |-> TrimmedText(chunk),
                                           error_code |-> "CLI_STDERR"])
                  ELSE channel[p])
            /\ \A q \in DOMAIN procs : q # p => channel'[q] = channel[q]
            /\ procs' = procs
            /\ sessions' = sessions
            /\ sessionBuffers' = sessionBuffers
            /\ calls' = calls]_vars

\* A stderr event was emitted while the line buffer of the session held a
\* partial line; the subprocess is alive and registered.
C23_Witness ==
  /\ \E k \in DOMAIN channel[1] :
       channel[1][k] = [type |-> "error", error_message |-> <<"w">>, error_code |-> "CLI_STDERR"]
  /\ procs[1].alive
  /\ procs[1].sigs = <<>>
  /\ "A" \in DOMAIN sessions
  /\ getSessionBuffer(sessionBuffers, "A") # <<>>

\* ---------------------------------------------------------------- C24
\* The terminateSession calls made by the n-th terminateAllSessions call.
BatchOf(cs, n) == {c \in DOMAIN cs : cs[c].batch = n}

\* Promise.all has resolved: every call of the batch has returned.
AllReturned(n) ==
  /\ BatchOf(calls, n) # {}
  /\ \A c \in BatchOf(calls, n) : calls[c].pc = "returned"

Unregistered(p) == \A id \in DOMAIN sessions : sessions[id] # p

SentTerm(p) == \E k \in DOMAIN procs[p].sigs : procs[p].sigs[k] = "SIGTERM"

\* The calls of a batch are all started in the step of the terminateAllSessions
\* call, one per registered session, so their waits run side by side.
StartedTogether ==
  \A n \in 1..(MaxAllCalls + 1) :
    /\ BatchOf(calls, n) # {} => BatchOf(calls', n) = BatchOf(calls, n)
    /\ (BatchOf(calls, n) = {} /\ BatchOf(calls', n) # {})
         => /\ \A id \in DOMAIN sessions :
                 \E c \in BatchOf(calls', n) :
                   calls'[c].proc = sessions[id] /\ calls'[c].pc = "waiting"
            /\ Cardinality(BatchOf(calls', n)) = Cardinality(DOMAIN sessions)

\* C24 as stated: once terminateAllSessions has returned, every session that
\* was registered when it was called is out of the registry and its
\* subprocess has been sent SIGTERM; the terminations are started together.
C24_TerminateAll ==
  /\ [](\A n \in 1..MaxAllCalls : AllReturned(n) =>
          \A c \in BatchOf(calls, n) :
            Unregistered(calls[c].proc) /\ SentTerm(calls[c].proc))
  /\ [][StartedTogether]_vars

\* C24 amended: SIGTERM has been sent to the subprocesses that had not exited
\* when terminateAllSessions was called; a subprocess that had exited before,
\* its session still being registered, is sent nothing.
C24_TerminateAllLive ==
  /\ [](\A n \in 1..MaxAllCalls : AllReturned(n) =>
          \A c \in BatchOf(calls, n) :
            /\ Unregistered(calls[c].proc)
            /\ calls[c].ret
            /\ calls[c].proc \in calls[c].seenLive => SentTerm(calls[c].proc))
  /\ [][StartedTogether]_vars

\* A terminateAllSessions call for two registered sessions has returned; one
\* subprocess exited during the wait, the other had exited before the call.
C24_Witness ==
  \E c, d \in BatchOf(calls, 1) :
    /\ AllReturned(1)
    /\ c # d
    /\ calls[c].proc \in calls[c].seenLive
    /\ calls[c].how = "exit"
    /\ SentTerm(calls[c].proc)
    /\ calls[d].proc \notin calls[d].seenLive
    /\ ~SentTerm(calls[d].proc)
    /\ sessions = EmptyMap

\* ---------------------------------------------------------------- C25
AsciiLetters == {"B", "a", "s", "h", "E", "d", "i", "t", "m", "c", "p", "x"}
NameTail == AsciiLetters \cup {"1", "2", "_", "-"}

\* An entry of an allow-list that is not a string, is longer than 50
\* characters, or is not a letter followed by letters, digits, '_' or '-'.
BadEntry(e) ==
  \/ DOMAIN e # {"str"}
  \/ Len(e.str) > 50
  \/ Len(e.str) = 0
  \/ e.str[1] \notin AsciiLetters
  \/ \E i \in 2..Len(e.str) : e.str[i] \notin NameTail

\* An allow-list that is missing, not an array, has more than 20 entries or
\* holds a bad entry.
BadAllowList(body) ==
  \/ DOMAIN body # {"arr"}
  \/ Len(body.arr) > 20
  \/ \E i \in 1..Len(body.arr) : BadEntry(body.arr[i])

\* C25: a restart request with a bad allow-list is answered with status 400
\* and changes nothing else: no subprocess is signalled or spawned, no
\* terminateSession call is made, the registry, the global session, the line
\* buffers and the channels stay as they were.
C25_RestartRejected ==
  [][\A sid \in {"", "A", "U1"} : \A body \in AllowedToolsBodies :
       (BadAllowList(body) /\ RestartRequest(sid, body))
         => /\ restarts' = Append(restarts, [sid |-> sid, tools |-> <<>>, pc |-> "done",
                                             status |-> 400, call |-> 0, proc |-> 0])
            /\ UNCHANGED <<procs, sessions, globalSession, calls, sessionBuffers, channel,
                           pipe, lastSpawn, hist>>]_vars

\* A request naming the registered global session was rejected with 400, so
\* for its allow-list; the session is registered and its subprocess untouched.
C25_Witness ==
  \E r \in DOMAIN restarts :
    /\ restarts[r].sid = "U1"
    /\ restarts[r].status = 400
    /\ "U1" \in DOMAIN sessions
    /\ globalSession = 1
    /\ procs[1].alive
    /\ procs[1].sigs = <<>>
    /\ calls = <<>>

\* ---------------------------------------------------------------- C26
NoRequestInProgress == \A r \in DOMAIN restarts : restarts[r].pc = "done"

LiveProcs == {p \in DOMAIN procs : procs[p].alive}

\* C26: whenever no restart request is in progress, at most one session is
\* registered, at most one subprocess is alive, and a registered session or a
\* live subprocess is that of the global session.
C26_SingleSharedSession ==
  NoRequestInProgress
    => /\ Cardinality(DOMAIN sessions) <= 1
       /\ Cardinality(LiveProcs) <= 1
       /\ \A id \in DOMAIN sessions : sessions[id] = globalSession
       /\ \A p \in LiveProcs : p = globalSession

\* ---------------------------------------------------------------- C27
\* The text after the last newline of text, all of text when it has none.
AfterLastNewline(text) ==
  LET at == {i \in 1..Len(text) : text[i] = LF} IN
  IF at = {} THEN text
  ELSE LET last == CHOOSE i \in at : \A j \in at : j <= i
       IN  SubSeq(text, last + 1, Len(text))

\* The bytes the stdout handler of subprocess p takes in this step.
Consumed(p) == SubSeq(pipe[p], 1, Len(pipe[p]) - Len(pipe'[p]))

\* C27: the stored partial line.  After every parseCLIOutput call no line
\* buffer contains a newline; the buffer of the session of the call is the text
\* after the last newline of (previous buffer + decoded chunk), empty when the
\* chunk ends with a newline; and the events of the call are those of the
\* lines before that last newline only.
C27_TrailingSegmentBuffered ==
  [][\A p \in DOMAIN procs :
       Len(pipe'[p]) < Len(pipe[p]) =>
         LET sid   == procs[p].sid
             chunk == Consumed(p)
             text  == getSessionBuffer(sessionBuffers, sid) \o Utf8Decode(chunk)
             new   == SubSeq(channel'[p], Len(channel[p]) + 1, Len(channel'[p]))
         IN  /\ \A s \in DOMAIN sessionBuffers' :
                  \A i \in 1..Len(sessionBuffers'[s]) : sessionBuffers'[s][i] # LF
             /\ sid \in DOMAIN sessionBuffers'
             /\ sessionBuffers'[sid] = AfterLastNewline(text)
             /\ chunk[Len(chunk)] = LF => sessionBuffers'[sid] = <<>>
             /\ Len(new) = Len(EventsOfLines(CompleteLines(text)))]_vars

\* A whole JSON line whose newline has not arrived sits in the buffer, unparsed.
C27_Witness ==
  \E sid \in SessionIds :
    /\ sid \in DOMAIN sessionBuffers
    /\ Mappable(sessionBuffers[sid])
    /\ hist[sid].out = <<>>
    /\ hist[sid].fed # <<>>

\* ---------------------------------------------------------------- C28
\* The terminateSession calls waiting for subprocess p to exit.
WaitingOn(p) == {c \in DOMAIN calls : calls[c].pc = "waiting" /\ calls[c].proc = p}

KillsDelivered(ps, p) == Cardinality({i \in 1..Len(ps[p].sigs) : ps[p].sigs[i] = "SIGKILL"})

ExitOrError(p) ==
  \E k \in (DOMAIN signals') \ (DOMAIN signals) :
    signals'[k].proc = p /\ signals'[k].name \in {"cli-exit", "cli-error"}

\* C29: the registry outlives the subprocess.  A step in which a subprocess
\* exits or reports an error leaves the registry as it is unless it resumes a
\* terminateSession call that was waiting for that subprocess; an id leaves
\* the registry only in a step that completes a terminateSession call for it;
\* and a session whose subprocess has exited with no terminateSession call
\* made for it is still the one getSession returns.
C29_ExitKeepsSession ==
  [][/\ \A p \in DOMAIN procs :
          (ExitOrError(p) /\ WaitingOn(p) = {}) => sessions' = sessions
     /\ \A sid \in DOMAIN sessions :
          (sid \notin DOMAIN sessions' \/ sessions'[sid] # sessions[sid]) =>
             \E c \in DOMAIN calls :
               /\ calls[c].sid = sid /\ calls[c].pc = "waiting"
               /\ calls'[c].pc = "returned" /\ calls'[c].ret
     /\ \A p \in DOMAIN procs' :
          (~procs'[p].alive /\ \A c \in DOMAIN calls' : calls'[c].proc # p)
             => MapGet(sessions', procs'[p].sid, 0) = p]_vars

\* The subprocess reported an error and exited, no terminateSession call was
\* made, and the session is still registered.
C29_Witness ==
  \E p \in DOMAIN procs :
    /\ ~procs[p].alive
    /\ calls = <<>>
    /\ MapGet(sessions, procs[p].sid, 0) = p
    /\ \E k \in DOMAIN signals : signals[k].proc = p /\ signals[k].name = "cli-error"

\* ---------------------------------------------------------------- C30
\* C30: when a terminateSession call returns true, the parser's buffer map
\* has no entry for its session id, whatever stdout chunks were parsed while
\* the call was waiting.
C30_BufferEmptyAfterTerminate ==
  [][\A c \in DOMAIN calls :
       (calls[c].pc = "waiting" /\ calls'[c].pc = "returned" /\ calls'[c].ret)
          => calls[c].sid \notin DOMAIN sessionBuffers']_vars

\* ---------------------------------------------------------------- C34
IsArtifactLine(v) == IsObject(v) /\ ~Nullish(v) /\ ~IsArray(v) /\ TypeOf(v) \in {"artifact", "file"}

\* First(o, k1, k2): o.k1 unless it is null or undefined, then o.k2.
First(o, k1, k2) == IF ~Nullish(Get(o, k1)) THEN Get(o, k1) ELSE Get(o, k2)

\* The line names a file under file_path or path.
HasFilePath(v) == Truthy(Get(v, "file_path")) \/ Truthy(Get(v, "path"))

\* C34 as stated: an artifact/file line is dropped exactly when it has no
\* file path under either field name.
C34_DroppedIffNoPath ==
  (mapper.phase = "mapped" /\ IsArtifactLine(mapper.in)) =>
    (mapper.out = <<>> <=> ~HasFilePath(mapper.in))

\* The line passes as an artifact: its path (file_path, or path when file_path
\* is null or absent) is a non-empty string, its content a string or absent,
\* its action 'create', 'update' or absent.
ArtifactAccepted(v) ==
  /\ IsString(First(v, "file_path", "path")) /\ First(v, "file_path", "path").str # <<>>
  /\ Nullish(First(v, "file_content", "content")) \/ IsString(First(v, "file_content", "content"))
  /\ Nullish(First(v, "action_type", "action")) \/ First(v, "action_type", "action") \in {CREATE, UPDATE}

\* C34 amended: an artifact/file line yields one artifact event when it passes
\* as an artifact, carrying that path, the content (empty string when absent)
\* and the action ('update' when absent); every other artifact/file line is
\* dropped, among them lines whose file path sits under path behind an empty
\* file_path and lines whose action or content fails the event schema.
C34_ArtifactAcceptedOrDropped ==
  (mapper.phase = "mapped" /\ IsArtifactLine(mapper.in)) =>
    IF ArtifactAccepted(mapper.in)
    THEN mapper.out =
           <<[type |-> "artifact",
              file_path |-> First(mapper.in, "file_path", "path"),
              file_content |-> IF Nullish(First(mapper.in, "file_content", "content"))
                               THEN JStr(<<>>) ELSE First(mapper.in, "file_content", "content"),
              action_type |-> IF Nullish(First(mapper.in, "action_type", "action"))
                              THEN UPDATE ELSE First(mapper.in, "action_type", "action")]>>
    ELSE mapper.out = <<>>

\* A file line with a path under path only, no content and no action came
\* out as an update of that path with empty content.
C34_Witness ==
  /\ mapper.phase = "mapped"
  /\ TypeOf(mapper.in) = "file"
  /\ Get(mapper.in, "file_path") = Undefined
  /\ Get(mapper.in, "action") = Undefined
  /\ mapper.out = <<[type |-> "artifact", file_path |-> JStr(<<"g">>),
                     file_content |-> JStr(<<>>), action_type |-> UPDATE]>>

\* ---------------------------------------------------------------- C35
NonBlank(lines) == {i \in DOMAIN lines : Trim(lines[i]) # <<>>}

\* The tool_use event of the first tool_use block of ToolLine and of UseLine.
FirstBlockEvent(line) ==
  IF line = ToolLine
  THEN [type |-> "tool_use", tool_name |-> JStr(<<"Bash">>),
        tool_input |-> [command |-> JStr(<<"l", "s">>)]]
  ELSE [type |-> "tool_use", tool_name |-> JStr(<<"Edit">>), tool_input |-> Undefined]

\* C35: at most one event per line.  In every parseCLIOutput call the events
\* returned are no more than the non-blank complete lines consumed, and when
\* these lines are assistant or tool_use lines holding several tool_use
\* blocks the call returns, line by line, one tool_use event for the first
\* such block and nothing else.
C35_OneEventPerLine ==
  [][\A p \in DOMAIN procs :
       Len(pipe'[p]) < Len(pipe[p]) =>
         LET sid   == procs[p].sid
             text  == getSessionBuffer(sessionBuffers, sid) \o Utf8Decode(Consumed(p))
             lines == CompleteLines(text)
             new   == SubSeq(channel'[p], Len(channel[p]) + 1, Len(channel'[p]))
         IN  /\ Len(new) <= Cardinality(NonBlank(lines))
             /\ (\A i \in DOMAIN lines : lines[i] \in {ToolLine, UseLine})
                  => new = [i \in DOMAIN lines |-> FirstBlockEvent(lines[i])]]_vars

\* One chunk carried a line of each kind and gave two tool_use events, Bash
\* for the assistant line and Edit for the tool_use line.
C35_Witness ==
  \E sid \in SessionIds :
    /\ hist[sid].fed = ToolLine \o <<LF>> \o UseLine \o <<LF>>
    /\ hist[sid].ncalls = 1
    /\ hist[sid].out = <<FirstBlockEvent(ToolLine), FirstBlockEvent(UseLine)>>

\* ---------------------------------------------------------------- C36
\* endInput(sid) has returned true.
InputEnded(sid) ==
  \E k \in DOMAIN sends : sends[k].sid = sid /\ sends[k].outcome = "end" /\ sends[k].ret

\* C36: after endInput(id) has returned true, every later sendMessage(id, ...)
\* returns false and writes nothing to the subprocess stdin, and every later
\* endInput(id) returns false.
C36_NoInputAfterEnd ==
  [][Len(sends') = Len(sends) + 1 =>
       LET rec == sends'[Len(sends')] IN
       InputEnded(rec.sid) =>
         /\ ~rec.ret
         /\ MapGet(stdin', rec.proc, OpenStdin).writes = StdinOf(rec.proc).writes]_vars

\* ---------------------------------------------------------------- C37
\* C37: a stream carries what its channel emits while it is subscribed.  A
\* stream opened in a step has, in that same step, its headers and ':ok'
\* written and its listener registered, and holds no event emitted earlier;
\* in every later step its data chunks grow by exactly the events emitted in
\* that step on its channel, in order, up to the terminal one, while it is
\* open, and by nothing once it has ended.
C37_SubscribedEventsOnly ==
  [][\A s \in DOMAIN streams' :
       IF s \notin DOMAIN streams
       THEN streams'[s].status = 200 =>
              /\ streams'[s].out = <<Comment(":ok")>>
              /\ streams'[s].listening
       ELSE DataEvents(streams'[s].out)
              = DataEvents(streams[s].out)
                  \o (IF IsOpen(streams[s]) THEN UpToTerminal(Emitted(streams[s].proc))
                      ELSE <<>>)]_vars

\* A stream subscribed after an event had been emitted holds the later event
\* only.
C37_Witness ==
  \E s \in DOMAIN streams :
    /\ streams[s].status = 200
    /\ ~streams[s].fresh
    /\ Len(DataEvents(streams[s].out)) = 1
    /\ Len(channel[streams[s].proc]) = 2
    /\ DataEvents(streams[s].out)[1] = channel[streams[s].proc][2]

\* ---------------------------------------------------------------- C38
\* C38: a stream subscribed before the response, whose client stays
\* connected, has received the message event and after it the complete event
\* once the subprocess has written the text line and the result line of the
\* response to stdout, whatever it wrote to stderr meanwhile.
C38_ResponseDespiteStderr ==
  \A s \in DOMAIN streams :
    (/\ streams[s].status = 200
     /\ streams[s].fresh
     /\ ~streams[s].closeSeen
     /\ hist[streams[s].sid].fed = TextThenResult)
      => \E i, j \in DOMAIN DataEvents(streams[s].out) :
           /\ i < j
           /\ DataEvents(streams[s].out)[i].type = "message"
           /\ DataEvents(streams[s].out)[j].type = "complete"

\* ---------------------------------------------------------------- C40
\* C40: a sendMessage call that returns true has written to the stdin of a
\* subprocess to which no termination signal has been sent, and no
\* terminateSession call is waiting for that subprocess.
C40_NoSendWhileTerminating ==
  [][(Len(sends') = Len(sends) + 1 /\ sends'[Len(sends')].ret) =>
       LET p == sends'[Len(sends')].proc IN
       /\ procs[p].sigs = <<>>
       /\ WaitingOn(p) = {}]_vars

\* ---- C31
\* Events the session object of chat c has emitted since the message was sent.
EventsSince(c) ==
  SubSeq(channel[chats[c].proc], chats[c].since + 1, Len(channel[chats[c].proc]))

\* Index of the first complete or error event in a sequence, 0 if there is none.
FirstTerminal(events) ==
  IF \E k \in DOMAIN events : events[k].type \in TerminalTypes
  THEN CHOOSE k \in DOMAIN events :
         /\ events[k].type \in TerminalTypes
         /\ \A j \in 1..(k - 1) : events[j].type \notin TerminalTypes
  ELSE 0

\* Concatenation of the contents of the message events of a sequence.
Contents(events) ==
  LET msgs == SelectSeq(events, LAMBDA e : e.type = "message")
      F[i \in 0..Len(msgs)] == IF i = 0 THEN <<>> ELSE F[i - 1] \o msgs[i].content.str
  IN  F[Len(msgs)]

ChatAwaited(c) == chats[c].proc # 0

\* C31: a blocking request that reached its await stays waiting only while no
\* complete or error event has been emitted since the send, the client is
\* connected and the timer is pending; it settles once, on the first of these;
\* settled by a complete event its reply is the concatenation of the message
\* contents emitted since the send, settled by an error event its reply is
\* that event's message; once settled none of its three listeners is attached,
\* and once it has replied the counter has been decremented exactly once.
C31_ChatSettlesOnce ==
  [][\A c \in DOMAIN chats' : ChatAwaited(c)' =>
       LET ch == chats'[c]
           ev == EventsSince(c)'
           k  == FirstTerminal(ev)
       IN  /\ ch.pc = "waiting" =>
                /\ k = 0 /\ ch.timer /\ ~ch.closeSeen
                /\ ch.onEvent /\ ch.onError /\ ch.onClose
                /\ ch.responseEvents = ev
           /\ ch.pc \in {"settled", "done"} =>
                /\ ~ch.onEvent /\ ~ch.onError /\ ~ch.onClose
                /\ ch.how \in {"complete", "error", "cli-error", "close", "timeout"}
                /\ ch.how = "complete" =>
                     /\ k > 0 /\ ev[k].type = "complete"
                     /\ ch.reply = Contents(SubSeq(ev, 1, k))
                /\ ch.how = "error" =>
                     /\ k > 0 /\ ev[k].type = "error"
                     /\ ch.reply = ev[k].error_message
                /\ c \in DOMAIN chats /\ chats[c].pc \in {"settled", "done"} =>
                     /\ ch.how = chats[c].how
                     /\ ch.reply = chats[c].reply
           /\ ch.incs = 1
           /\ ch.decs = (IF ch.pc = "done" THEN 1 ELSE 0)
           /\ ch.pc = "done" => ch.status = (IF ch.how = "complete" THEN 200 ELSE 500)
    ]_vars

\* A request has replied with the text of a message event that was followed
\* by a complete event, and its client has disconnected since.
C31_Witness ==
  \E c \in DOMAIN chats :
    /\ chats[c].pc = "done" /\ chats[c].how = "complete"
    /\ chats[c].reply # <<>> /\ chats[c].decs = 1 /\ chats[c].closeSeen

\* ---- C39
\* Blocking requests between their increment and their finally block.
PendingChats == Cardinality({c \in DOMAIN chats : chats[c].pc \in {"waiting", "settled"}})

\* C39: the active-request counter is never negative and equals the number of
\* streams opened and not yet torn down plus the number of blocking requests
\* that passed validation and have not finished; no request is decremented
\* for more often than it was incremented for, and a finished request was
\* decremented for exactly as often as it was incremented for.
C39_CounterMatchesRequests ==
  /\ activeRequestCount >= 0
  /\ activeRequestCount = OpenCount + PendingChats
  /\ \A s \in DOMAIN streams :
       /\ streams[s].cleanups <= (IF streams[s].status = 200 THEN 1 ELSE 0)
       /\ streams[s].streamEnded => streams[s].cleanups = 1
  /\ \A c \in DOMAIN chats :
       /\ chats[c].incs = (IF chats[c].status = 400 THEN 0 ELSE 1)
       /\ chats[c].decs <= chats[c].incs
       /\ chats[c].pc = "done" => chats[c].decs = chats[c].incs

\* A stream is open while a blocking request waits, and the counter is two.
C39_Witness ==
  /\ activeRequestCount = 2
  /\ \E s \in DOMAIN streams : streams[s].status = 200 /\ streams[s].cleanups = 0
  /\ \E c \in DOMAIN chats : chats[c].pc = "waiting"

\* ---- C32
\* The step in which shutdown() leaves its wait loop: the only step in which
\* it can send a termination signal.
LeavesWait == shutdown.pc \in {"idle", "polling"} /\ shutdown'.pc \in {"terminating", "closing"}

\* C32: shutdown() leaves its wait loop, and so sends its termination signal,
\* only when the counter is zero or the bounded wait has elapsed; it sends no
\* signal while it is in the loop; and an evaluation of the loop condition
\* that finds the counter at zero leaves the loop at once, whatever time is
\* left of the wait.
C32_WaitsForRequests ==
  [][/\ LeavesWait => activeRequestCount = 0 \/ shutdown'.polls >= MaxWaitPolls
     /\ shutdown'.pc \in {"idle", "polling"} =>
          \A c \in DOMAIN calls' \ DOMAIN calls : c # shutdown'.call
     /\ (shutdown' # shutdown /\ shutdown.pc \in {"idle", "polling"} /\ activeRequestCount = 0)
          => /\ shutdown'.pc \in {"terminating", "closing"}
             /\ shutdown'.seen = 0
     /\ (shutdown'.pc = "terminating" /\ shutdown.pc # "terminating")
          => /\ shutdown'.call = Len(calls) + 1
             /\ calls'[shutdown'.call].sid = procs[globalSession].sid
             /\ procs[globalSession].alive /\ ~procs[globalSession].killed
                  /\ procs[globalSession].sid \in DOMAIN sessions
                  /\ sessions[procs[globalSession].sid] = globalSession
                  => "SIGTERM" \in {procs'[globalSession].sigs[i] :
                                      i \in 1..Len(procs'[globalSession].sigs)}
    ]_vars

\* The counter fell to zero while shutdown() was waiting, and the global
\* session was signalled before the wait had run out.
C32_Witness ==
  /\ shutdown.pc = "terminating"
  /\ shutdown.polls > 0 /\ shutdown.polls < MaxWaitPolls
  /\ shutdown.seen = 0
  /\ calls[shutdown.call].proc = shutdown.proc
  /\ \E s \in DOMAIN streams : streams[s].status = 200 /\ streams[s].cleanups = 1

\* ---- C33
SignalSent(p) == procs[p].sigs # <<>>

\* C33: when shutdown() has finished, no session is left in the registry and
\* every subprocess has exited or has been sent a termination signal.
C33_AllTerminatedAtExit ==
  shutdown.pc = "done" =>
    /\ DOMAIN sessions = {}
    /\ \A p \in DOMAIN procs : procs[p].alive => SignalSent(p)

====
